---- MODULE Spec2Model ----
(***************************************************************************)
(* Wizard-Arena: the entity store (EntityManager / Entity) and the         *)
(* per-frame pipeline of the gameplay scene (ScenePlay.update and its      *)
(* systems), with the oriented-box separation test of utils.js.            *)
(*                                                                         *)
(* Units.  Lengths are integers in 1/40 of a world unit, velocities in     *)
(* world units per second, times in tenths of a second, so that            *)
(* position += velocity * delta is  pos + velocity * delta * 4.            *)
(* Entities are objects: heap[r] is the object behind reference r, in      *)
(* allocation order; the lists of the store hold references.               *)
(***************************************************************************)
EXTENDS Integers, Sequences, FiniteSets, TLC

VARIABLES
    heap,            \* the Entity objects ever constructed (reference = index)
    entities,        \* EntityManager.entities
    entitiesToAdd,   \* EntityManager.entitiesToAdd
    entityMap,       \* EntityManager.entityMap : tag -> list
    entityCount,     \* EntityManager.entityCount
    isPaused,        \* Scene.isPaused
    keys,            \* ScenePlay.input.keys : the codes currently held
    mouse,           \* ScenePlay.input.mouse : dx, dy, buttons, locked
    camYaw,          \* ScenePlay.camYaw   (in pointer units, see Sensitivity)
    camPitch,        \* ScenePlay.camPitch
    camOver,         \* ScenePlay.camLastFrameOverThreshold
    camQuat,         \* ScenePlay.camera.quaternion, as the (yaw, pitch) it was set from
    camPos,          \* ScenePlay.camera.position
    sceneMeshes,     \* meshes attached to the THREE scene (by owning entity)
    addedMeshes,     \* ScenePlay.addedMeshes
    pc,              \* position inside ScenePlay.update ("idle" between frames)
    delta,           \* the delta of the frame being run
    frames,          \* frames run so far (bounded by MaxFrames)
    cells,           \* SpatialGrid.cells : key "cx,cz" -> set of objects
    objectCells,     \* SpatialGrid.objectCells : object -> keys it was inserted into
    spawnQueue,      \* GameEngine.spawnQueue : requests {type, origin, direction}
    destroyQueue,    \* GameEngine.destroyQueue : entity ids
    spawnCooldown,   \* SpawnSystem.spawnCooldown, in tenths of a second
    toggleSpawn,     \* SpawnSystem.toggleSpawn
    sinceSpawn       \* history of SpawnSystem since its last request (read by no action)

emVars    == <<heap, entities, entitiesToAdd, entityMap, entityCount>>
inputVars == <<keys, mouse>>
camVars   == <<camYaw, camPitch, camOver, camQuat, camPos>>
meshVars  == <<sceneMeshes, addedMeshes>>
ctlVars   == <<pc, delta, frames>>
gridVars  == <<cells, objectCells>>
engineVars == <<spawnQueue, destroyQueue, spawnCooldown, toggleSpawn, sinceSpawn>>
vars == <<heap, entities, entitiesToAdd, entityMap, entityCount, isPaused,
          keys, mouse, camYaw, camPitch, camOver, camQuat, camPos,
          sceneMeshes, addedMeshes, pc, delta, frames, cells, objectCells,
          spawnQueue, destroyQueue, spawnCooldown, toggleSpawn, sinceSpawn>>

----------------------------------------------------------------------------
(* Bounds of the model *)

MaxEntities == 3     \* Entity objects constructed by the store harness
MaxFrames == 2       \* frames run by the scene

----------------------------------------------------------------------------
(* Vectors (THREE.Vector3) *)

Vec(x, y, z) == <<x, y, z>>
Zero3 == <<0, 0, 0>>
VAdd(a, b) == <<a[1] + b[1], a[2] + b[2], a[3] + b[3]>>
VSub(a, b) == <<a[1] - b[1], a[2] - b[2], a[3] - b[3]>>
VScale(a, k) == <<a[1] * k, a[2] * k, a[3] * k>>
Dot(a, b) == a[1] * b[1] + a[2] * b[2] + a[3] * b[3]
Abs(x) == IF x < 0 THEN -x ELSE x
Min(x, y) == IF x < y THEN x ELSE y
Max(x, y) == IF x > y THEN x ELSE y

SeqToSet(s) == {s[i] : i \in DOMAIN s}
Count(s, x) == Cardinality({i \in DOMAIN s : s[i] = x})

----------------------------------------------------------------------------
(* Entity.js *)

\* new Entity(id, tag): active, empty component bag.  The fields of the
\* components are kept beside the bag and read only when the bag names them.
Entity(id, tag) ==
    [id |-> id, tag |-> tag, active |-> TRUE, components |-> {},
     position |-> Zero3, isOnGround |-> FALSE, velocity |-> Zero3,
     half |-> Zero3, rotation |-> 0, hp |-> 0, maxHp |-> 0,
     secondsLeft |-> 0, mesh |-> FALSE, meshPosition |-> Zero3]

hasComponent(e, name) == name \in e.components

isActive(e) == e.active

\* Entity.destroy on the object behind r
destroyMutToggle(h, r) == [h EXCEPT ![r].active = ~h[r].active]
destroy(h, r) == [h EXCEPT ![r].active = FALSE]

----------------------------------------------------------------------------
(* EntityManager *)

NoEntity == 0    \* null

Refs == 1..Len(heap)

getEntities == entities

\* getWithComponentName as a system calls it while the objects are in state h
queryMutAll(h, names) ==
    SelectSeq(entities, LAMBDA r : names \subseteq h[r].components)
query(h, names) ==
    SelectSeq(entities, LAMBDA r : isActive(h[r]) /\ names \subseteq h[r].components)

getWithComponentName(names) == query(heap, names)

\* entities.find(e => e.id === id && e.isActive()) ?? null
getWithIDMutAny(id) ==
    LET hit == SelectSeq(entities, LAMBDA r : heap[r].id = id)
    IN  IF hit = <<>> THEN NoEntity ELSE hit[1]
getWithID(id) ==
    LET hit == SelectSeq(entities, LAMBDA r : heap[r].id = id /\ isActive(heap[r]))
    IN  IF hit = <<>> THEN NoEntity ELSE hit[1]

getEntitiesWithTag(tag) ==
    IF tag \in DOMAIN entityMap THEN entityMap[tag] ELSE <<>>

\* the id handed to the next entity: this.entityCount++
nextIdMutLength == Len(entities) + Len(entitiesToAdd)
nextId == entityCount

\* new Entity(this.entityCount++, tag)
created(tag) == Entity(nextId, tag)

\* addEntity(tag), where e is created(tag) with the components the caller
\* attaches to the returned entity
addEntity(e) ==
    /\ heap' = Append(heap, e)
    /\ entitiesToAdd' = Append(entitiesToAdd, Len(heap) + 1)
    /\ entityCount' = entityCount + 1
    /\ UNCHANGED <<entities, entityMap>>

\* the first loop of update(): push every buffered entity on the live list
\* and on the list of its tag
flushedEntities == entities \o entitiesToAdd

flushedMapMutDrop == entityMap
flushedMapMutFront ==
    LET newTags == {heap[entitiesToAdd[i]].tag : i \in DOMAIN entitiesToAdd}
    IN  [t \in DOMAIN entityMap \cup newTags |->
            SelectSeq(entitiesToAdd, LAMBDA r : heap[r].tag = t)
            \o (IF t \in DOMAIN entityMap THEN entityMap[t] ELSE <<>>)]
flushedMap ==
    LET newTags == {heap[entitiesToAdd[i]].tag : i \in DOMAIN entitiesToAdd}
    IN  [t \in DOMAIN entityMap \cup newTags |->
            (IF t \in DOMAIN entityMap THEN entityMap[t] ELSE <<>>)
            \o SelectSeq(entitiesToAdd, LAMBDA r : heap[r].tag = t)]

\* removeDeadEntities, on one list
removeDeadMutKeep(list) == list
removeDead(list) == SelectSeq(list, LAMBDA r : isActive(heap[r]))

\* EntityManager.update()
EntityManager_update ==
    /\ entities' = removeDead(flushedEntities)
    /\ entityMap' = [t \in DOMAIN flushedMap |-> removeDead(flushedMap[t])]
    /\ entitiesToAdd' = <<>>
    /\ UNCHANGED <<heap, entityCount>>

----------------------------------------------------------------------------
(* The store on its own: any interleaving of addEntity, destroy and update *)

Tags == {"wizardEntity", "fireballEntity"}
Bags == {{}, {"PositionComponent"}}

sceneIdle ==
    /\ isPaused = FALSE
    /\ keys = {}
    /\ mouse = [dx |-> 0, dy |-> 0, buttons |-> 0, locked |-> FALSE]
    /\ camYaw = 0 /\ camPitch = 0 /\ camOver = FALSE
    /\ camQuat = <<0, 0>> /\ camPos = Zero3
    /\ sceneMeshes = {} /\ addedMeshes = {}
    /\ pc = "idle" /\ delta = 0 /\ frames = 0

\* new SpatialGrid(): no cell, no object
gridEmpty == cells = << >> /\ objectCells = << >>

\* new GameEngine(), new SpawnSystem(): empty queues, no cooldown
\* no request yet: elapsed is the sum of the deltas subtracted from the
\* cooldown since the last request (-1 before the first), released whether
\* an update has seen the button mask at 0 since then
NoSpawn == [elapsed |-> -1, released |-> FALSE]

engineIdle ==
    /\ spawnQueue = <<>> /\ destroyQueue = <<>>
    /\ spawnCooldown = 0 /\ toggleSpawn = TRUE
    /\ sinceSpawn = NoSpawn

sceneVars == <<isPaused, keys, mouse, camYaw, camPitch, camOver, camQuat, camPos,
               sceneMeshes, addedMeshes, pc, delta, frames, cells, objectCells,
          spawnQueue, destroyQueue, spawnCooldown, toggleSpawn, sinceSpawn>>

InitStore ==
    /\ heap = <<>>
    /\ entities = <<>>
    /\ entitiesToAdd = <<>>
    /\ entityMap = << >>
    /\ entityCount = 0
    /\ sceneIdle
    /\ gridEmpty
    /\ engineIdle

StoreAdd ==
    /\ Len(heap) < MaxEntities
    /\ \E tag \in Tags, bag \in Bags :
          addEntity([created(tag) EXCEPT !.components = bag])
    /\ UNCHANGED sceneVars

StoreDestroy ==
    /\ \E r \in Refs : heap' = destroy(heap, r)
    /\ UNCHANGED <<entities, entitiesToAdd, entityMap, entityCount>>
    /\ UNCHANGED sceneVars

StoreUpdate ==
    /\ EntityManager_update
    /\ UNCHANGED sceneVars

NextStore == StoreAdd \/ StoreDestroy \/ StoreUpdate

SpecStore == InitStore /\ [][NextStore]_vars

----------------------------------------------------------------------------
(* utils.js: oriented boxes and the separating-axis test.                  *)
(* An orientation is a number of quarter turns about the Y axis (the only  *)
(* rotations whose axes stay on the integer lattice); 0 is the identity.   *)

Cos4(k) == <<1, 0, -1, 0>>[(k % 4) + 1]
Sin4(k) == <<0, 1, 0, -1>>[(k % 4) + 1]

\* Matrix3 of makeRotationFromQuaternion, column-major: the three columns
RotationMatrix(k) ==
    << <<Cos4(k), 0, -Sin4(k)>>, <<0, 1, 0>>, <<Sin4(k), 0, Cos4(k)>> >>

getOBB(e) ==
    [center |-> e.position, halfSize |-> e.half, rotation |-> RotationMatrix(e.rotation)]

obbAxes(obb) == obb.rotation

projectOBB(obb, axis) ==
    LET axes == obbAxes(obb)
        r == obb.halfSize[1] * Abs(Dot(axis, axes[1]))
           + obb.halfSize[2] * Abs(Dot(axis, axes[2]))
           + obb.halfSize[3] * Abs(Dot(axis, axes[3]))
        c == Dot(obb.center, axis)
    IN  [min |-> c - r, max |-> c + r]

LengthSq(v) == Dot(v, v)
Sgn(x) == IF x > 0 THEN 1 ELSE IF x < 0 THEN -1 ELSE 0
\* Vector3.normalize, exact for the vectors parallel to a world axis
Normalize(v) == <<Sgn(v[1]), Sgn(v[2]), Sgn(v[3])>>

NoMtv == <<>>    \* null

RECURSIVE satLoopMutTouch(_, _, _, _, _)
satLoopMutTouch(obbA, obbB, axes, i, acc) ==
    IF i > Len(axes) \/ acc.separated THEN acc
    ELSE LET axis == axes[i]
             pA == projectOBB(obbA, axis)
             pB == projectOBB(obbB, axis)
             overlap == Min(pA.max, pB.max) - Max(pA.min, pB.min)
         IN  IF overlap < 0 THEN [acc EXCEPT !.separated = TRUE]
             ELSE IF ~acc.hasAxis \/ overlap < acc.minOverlap
                  THEN satLoopMutTouch(obbA, obbB, axes, i + 1,
                               [separated |-> FALSE, hasAxis |-> TRUE,
                                minOverlap |-> overlap, mtvAxis |-> Normalize(axis)])
                  ELSE satLoopMutTouch(obbA, obbB, axes, i + 1, acc)

RECURSIVE satLoopMutLast(_, _, _, _, _)
satLoopMutLast(obbA, obbB, axes, i, acc) ==
    IF i > Len(axes) \/ acc.separated THEN acc
    ELSE LET axis == axes[i]
             pA == projectOBB(obbA, axis)
             pB == projectOBB(obbB, axis)
             overlap == Min(pA.max, pB.max) - Max(pA.min, pB.min)
         IN  IF overlap <= 0 THEN [acc EXCEPT !.separated = TRUE]
             ELSE IF ~acc.hasAxis \/ overlap <= acc.minOverlap
                  THEN satLoopMutLast(obbA, obbB, axes, i + 1,
                               [separated |-> FALSE, hasAxis |-> TRUE,
                                minOverlap |-> overlap, mtvAxis |-> Normalize(axis)])
                  ELSE satLoopMutLast(obbA, obbB, axes, i + 1, acc)

\* the loop of satOBB over `axes` from index i on; acc is
\* [separated, hasAxis, minOverlap, mtvAxis] (minOverlap = Infinity while ~hasAxis)
RECURSIVE satLoop(_, _, _, _, _)
satLoop(obbA, obbB, axes, i, acc) ==
    IF i > Len(axes) \/ acc.separated THEN acc
    ELSE LET axis == axes[i]
             pA == projectOBB(obbA, axis)
             pB == projectOBB(obbB, axis)
             overlap == Min(pA.max, pB.max) - Max(pA.min, pB.min)
         IN  IF LengthSq(axis) = 0 THEN satLoop(obbA, obbB, axes, i + 1, acc)
             ELSE IF overlap <= 0 THEN [acc EXCEPT !.separated = TRUE]
             ELSE IF ~acc.hasAxis \/ overlap < acc.minOverlap
                  THEN satLoop(obbA, obbB, axes, i + 1,
                               [separated |-> FALSE, hasAxis |-> TRUE,
                                minOverlap |-> overlap, mtvAxis |-> Normalize(axis)])
                  ELSE satLoop(obbA, obbB, axes, i + 1, acc)

satOBBMutNoFlip(obbA, obbB) ==
    LET axes == obbAxes(obbA) \o obbAxes(obbB)
        res == satLoop(obbA, obbB, axes, 1,
                       [separated |-> FALSE, hasAxis |-> FALSE,
                        minOverlap |-> 0, mtvAxis |-> Zero3])
    IN  IF res.separated \/ ~res.hasAxis THEN NoMtv
        ELSE VScale(res.mtvAxis, res.minOverlap)

satOBB(obbA, obbB) ==
    LET axes == obbAxes(obbA) \o obbAxes(obbB)
        res == satLoop(obbA, obbB, axes, 1,
                       [separated |-> FALSE, hasAxis |-> FALSE,
                        minOverlap |-> 0, mtvAxis |-> Zero3])
        flip == Dot(VSub(obbA.center, obbB.center), res.mtvAxis) < 0
        dir == IF flip THEN VScale(res.mtvAxis, -1) ELSE res.mtvAxis
    IN  IF res.separated \/ ~res.hasAxis THEN NoMtv
        ELSE VScale(dir, res.minOverlap)

----------------------------------------------------------------------------
(* Program constants, in the units of the model *)

PlayerSpeed == 10          \* playerConfig.speed
JumpStrength == 13         \* playerConfig.jumpStrength
GravityAccel == 20         \* playerConfig.gravity
CombustDamage == 30        \* hp -= 30
DeltaThreshold == 200      \* deltaThreshold, in pointer counts
QuarterTurn == 785         \* Math.PI / 2 in pointer counts of `sensitivity` radians
FireballSpeed == 15        \* FIREBALL_SPEED
FireballRadius == 12       \* FIREBALL_RADIUS = 0.3
FireballLifetime == 10     \* FIREBALL_LIFETIME = 1 s
FireballOffset == 24       \* origin = camera position + 0.6 * direction
FireballHealth == 1        \* new HealthComponent(1)
ZombieHealth == 100        \* ZOMBIE_HEALTH
DefaultMaxHp == 100        \* HealthComponent(maxHp = 100)
PlayerId == 0              \* the id the combustion rule and the camera single out

DefaultHalf == <<20, 40, 20>>         \* CollisionComponent(half = (0.5, 1, 0.5))

\* v * delta, as a displacement
Step(v, dt) == VScale(v, dt * 4)
\* x * 0.5 (exact on even x)
Half(x) == x \div 2

----------------------------------------------------------------------------
(* Components.js and the factories: what addComponent leaves on the entity *)

withPosition(e, p) ==
    [e EXCEPT !.components = @ \cup {"PositionComponent"},
              !.position = p, !.isOnGround = FALSE]
withVelocity(e, v) ==
    [e EXCEPT !.components = @ \cup {"VelocityComponent"}, !.velocity = v]
withCollision(e, half, rot) ==
    [e EXCEPT !.components = @ \cup {"CollisionComponent"},
              !.half = half, !.rotation = rot]
withHealth(e, maxHp) ==
    [e EXCEPT !.components = @ \cup {"HealthComponent"}, !.hp = maxHp, !.maxHp = maxHp]
withLifespan(e, secs) ==
    [e EXCEPT !.components = @ \cup {"LifespanComponent"}, !.secondsLeft = secs]
withMarker(e, name) == [e EXCEPT !.components = @ \cup {name}]
\* new MeshComponent(mesh), the mesh placed at p
withMesh(e, p) ==
    [e EXCEPT !.components = @ \cup {"MeshComponent"}, !.mesh = TRUE, !.meshPosition = p]

\* _initDefaultPlayer
wizard(e, p) ==
    withMesh(withHealth(withCollision(withMarker(withVelocity(withPosition(
        withMarker(e, "InputComponent"), p), Zero3), "GravityComponent"),
        DefaultHalf, 0), DefaultMaxHp), Zero3)

\* zombieComponents
zombieComponents(e, p) ==
    withMesh(withHealth(withCollision(withVelocity(withPosition(e, p), Zero3),
        DefaultHalf, 0), ZombieHealth), p)

\* the static test box of _initDefaultEntities
staticBox(e, p) == withMesh(withCollision(withPosition(e, p), DefaultHalf, 0), Zero3)

\* the floor of _initDefaultWorld
floorEntity(e, p, half) == withCollision(withMesh(withPosition(e, p), Zero3), half, 0)

\* fireballComponents
fireballComponents(e, origin, direction) ==
    withMesh(withMarker(withLifespan(withHealth(withCollision(withVelocity(
        withPosition(e, origin), VScale(Normalize(direction), FireballSpeed)),
        <<FireballRadius, FireballRadius, FireballRadius>>, 0),
        FireballHealth), FireballLifetime), "CombustibleComponent"), origin)

----------------------------------------------------------------------------
(* ScenePlay: the systems, as functions of the objects they mutate *)

\* the quarter turns of a yaw held in pointer counts
Quarter(a) == (a \div QuarterTurn) % 4

\* (0, 0, -1) and (1, 0, 0) turned by the camera, flattened on XZ, normalised
camForward(quat) == <<-Sin4(Quarter(quat[1])), 0, -Cos4(Quarter(quat[1]))>>
camRight(quat) == <<Cos4(Quarter(quat[1])), 0, -Sin4(Quarter(quat[1]))>>
\* camera.getWorldDirection
camDirection(quat) ==
    LET cp == Cos4(Quarter(quat[2]))
        sp == Sin4(Quarter(quat[2]))
    IN  <<-Sin4(Quarter(quat[1])) * cp, sp, -Cos4(Quarter(quat[1])) * cp>>

Held(ks, code) == IF code \in ks THEN 1 ELSE 0

moveEntityMutSum(e, ks, quat, dt) ==
    IF hasComponent(e, "InputComponent")
    THEN LET fwd == Held(ks, "KeyW") + Held(ks, "KeyS")
             side == Held(ks, "KeyD") - Held(ks, "KeyA")
             raw == VAdd(VScale(camForward(quat), fwd), VScale(camRight(quat), side))
             move == IF LengthSq(raw) > 0 THEN Normalize(raw) ELSE raw
             moved == [e EXCEPT !.position = VAdd(@, Step(move, PlayerSpeed * dt))]
         IN  IF "Space" \in ks /\ e.isOnGround
             THEN [moved EXCEPT !.velocity[2] = JumpStrength]
             ELSE moved
    ELSE [e EXCEPT !.position = VAdd(@, Step(e.velocity, dt))]

moveEntityMutAirJump(e, ks, quat, dt) ==
    IF hasComponent(e, "InputComponent")
    THEN LET fwd == Held(ks, "KeyW") - Held(ks, "KeyS")
             side == Held(ks, "KeyD") - Held(ks, "KeyA")
             raw == VAdd(VScale(camForward(quat), fwd), VScale(camRight(quat), side))
             move == IF LengthSq(raw) > 0 THEN Normalize(raw) ELSE raw
             moved == [e EXCEPT !.position = VAdd(@, Step(move, PlayerSpeed * dt))]
         IN  IF "Space" \in ks
             THEN [moved EXCEPT !.velocity[2] = JumpStrength]
             ELSE moved
    ELSE [e EXCEPT !.position = VAdd(@, Step(e.velocity, dt))]

\* the body of the loop of sMovement, on one entity
moveEntity(e, ks, quat, dt) ==
    IF hasComponent(e, "InputComponent")
    THEN LET fwd == Held(ks, "KeyW") - Held(ks, "KeyS")
             side == Held(ks, "KeyD") - Held(ks, "KeyA")
             raw == VAdd(VScale(camForward(quat), fwd), VScale(camRight(quat), side))
             move == IF LengthSq(raw) > 0 THEN Normalize(raw) ELSE raw
             moved == [e EXCEPT !.position = VAdd(@, Step(move, PlayerSpeed * dt))]
         IN  IF "Space" \in ks /\ e.isOnGround
             THEN [moved EXCEPT !.velocity[2] = JumpStrength]
             ELSE moved
    ELSE [e EXCEPT !.position = VAdd(@, Step(e.velocity, dt))]

sMovementMutReset(h, ks, quat, dt) ==
    LET sel == SeqToSet(query(h, {"PositionComponent", "VelocityComponent"}))
    IN  [r \in DOMAIN h |->
            IF r \in sel THEN moveEntity([h[r] EXCEPT !.isOnGround = FALSE], ks, quat, dt)
            ELSE h[r]]

sMovement(h, ks, quat, dt) ==
    LET sel == SeqToSet(query(h, {"PositionComponent", "VelocityComponent"}))
    IN  [r \in DOMAIN h |-> IF r \in sel THEN moveEntity(h[r], ks, quat, dt) ELSE h[r]]

fallEntityMutOldVelocity(e, dt) ==
    IF ~e.isOnGround
    THEN LET v == [e.velocity EXCEPT ![2] = @ - (GravityAccel * dt) \div 10]
         IN  [e EXCEPT !.velocity = v, !.position = VAdd(@, Step(e.velocity, dt))]
    ELSE e

\* the body of the loop of sGravity, on one entity
fallEntity(e, dt) ==
    IF ~e.isOnGround
    THEN LET v == [e.velocity EXCEPT ![2] = @ - (GravityAccel * dt) \div 10]
         IN  [e EXCEPT !.velocity = v, !.position = VAdd(@, Step(v, dt))]
    ELSE e

sGravity(h, dt) ==
    LET sel == SeqToSet(query(h, {"PositionComponent", "VelocityComponent",
                                  "GravityComponent"}))
    IN  [r \in DOMAIN h |-> IF r \in sel THEN fallEntity(h[r], dt) ELSE h[r]]

\* the first loop of sCollision: isOnGround = false on every dynamic entity
resetGrounded(h) ==
    LET sel == SeqToSet(query(h, {"PositionComponent", "VelocityComponent"}))
    IN  [r \in DOMAIN h |-> IF r \in sel THEN [h[r] EXCEPT !.isOnGround = FALSE] ELSE h[r]]

\* hp -= 30 on the entity behind r, if it has a HealthComponent
damage(h, r) ==
    IF hasComponent(h[r], "HealthComponent")
    THEN [h EXCEPT ![r].hp = @ - CombustDamage]
    ELSE h

combustMutBurnsOnPlayer(h, a, b) ==
    LET aComb == hasComponent(h[a], "CombustibleComponent")
        bComb == hasComponent(h[b], "CombustibleComponent")
        h1 == IF aComb THEN damage(destroy(h, a), b) ELSE h
        h2 == IF bComb THEN damage(destroy(h1, b), a) ELSE h1
    IN  [heap |-> h2, skip |-> FALSE]

combustMutHurtsPlayer(h, a, b) ==
    LET aComb == hasComponent(h[a], "CombustibleComponent")
        bComb == hasComponent(h[b], "CombustibleComponent")
        h1 == IF aComb THEN damage(h, b) ELSE h
        h2 == IF bComb THEN damage(h1, a) ELSE h1
    IN  [heap |-> h2,
         skip |-> (aComb /\ h[b].id = PlayerId) \/ (bComb /\ h[a].id = PlayerId)]

combustMutFirstOnly(h, a, b) ==
    LET aComb == hasComponent(h[a], "CombustibleComponent")
    IN  IF aComb /\ h[b].id = PlayerId THEN [heap |-> h, skip |-> TRUE]
        ELSE IF aComb THEN [heap |-> damage(destroy(h, a), b), skip |-> FALSE]
        ELSE [heap |-> h, skip |-> FALSE]

combustMutSpareBoth(h, a, b) ==
    LET aComb == hasComponent(h[a], "CombustibleComponent")
        bComb == hasComponent(h[b], "CombustibleComponent")
    IN  IF aComb /\ bComb THEN [heap |-> h, skip |-> FALSE]
        ELSE IF aComb /\ h[b].id = PlayerId THEN [heap |-> h, skip |-> TRUE]
        ELSE IF bComb /\ h[a].id = PlayerId THEN [heap |-> h, skip |-> TRUE]
        ELSE IF aComb THEN [heap |-> damage(destroy(h, a), b), skip |-> FALSE]
        ELSE IF bComb THEN [heap |-> damage(destroy(h, b), a), skip |-> FALSE]
        ELSE [heap |-> h, skip |-> FALSE]

\* the two combustion blocks of the pair (a, b): the objects afterwards, and
\* whether a `continue` left the pair
combust(h, a, b) ==
    LET aComb == hasComponent(h[a], "CombustibleComponent")
        bComb == hasComponent(h[b], "CombustibleComponent")
        h1 == IF aComb /\ h[b].id # PlayerId THEN damage(destroy(h, a), b) ELSE h
        h2 == IF bComb /\ h[a].id # PlayerId THEN damage(destroy(h1, b), a) ELSE h1
    IN  IF aComb /\ h[b].id = PlayerId THEN [heap |-> h, skip |-> TRUE]
        ELSE IF bComb /\ h[a].id = PlayerId THEN [heap |-> h1, skip |-> TRUE]
        ELSE [heap |-> h2, skip |-> FALSE]

grounded(e) == [e EXCEPT !.velocity[2] = 0, !.isOnGround = TRUE]

resolveMutAddB(h, a, b, mtv) ==
    LET aDynamic == hasComponent(h[a], "VelocityComponent")
        bDynamic == hasComponent(h[b], "VelocityComponent")
        yDominant == Abs(mtv[2]) > Abs(mtv[1]) /\ Abs(mtv[2]) > Abs(mtv[3])
    IN  IF aDynamic /\ bDynamic
        THEN IF yDominant
             THEN IF mtv[2] > 0
                  THEN [h EXCEPT ![a] = grounded([@ EXCEPT !.position[2] = @ + mtv[2]])]
                  ELSE [h EXCEPT ![b] = grounded([@ EXCEPT !.position[2] = @ - mtv[2]])]
             ELSE [h EXCEPT ![a].position = <<@[1] + Half(mtv[1]), @[2], @[3] + Half(mtv[3])>>,
                            ![b].position = <<@[1] - Half(mtv[1]), @[2], @[3] - Half(mtv[3])>>]
        ELSE IF aDynamic
        THEN LET pushed == [h[a] EXCEPT !.position = VAdd(@, mtv)]
             IN  [h EXCEPT ![a] = IF mtv[2] > 0 THEN grounded(pushed) ELSE pushed]
        ELSE IF bDynamic
        THEN LET pushed == [h[b] EXCEPT !.position = VAdd(@, mtv)]
             IN  [h EXCEPT ![b] = IF mtv[2] < 0 THEN grounded(pushed) ELSE pushed]
        ELSE h

resolveMutNoSplit(h, a, b, mtv) ==
    LET aDynamic == hasComponent(h[a], "VelocityComponent")
        bDynamic == hasComponent(h[b], "VelocityComponent")
        yDominant == Abs(mtv[2]) > Abs(mtv[1]) /\ Abs(mtv[2]) > Abs(mtv[3])
    IN  IF aDynamic /\ bDynamic
        THEN IF yDominant
             THEN IF mtv[2] > 0
                  THEN [h EXCEPT ![a] = grounded([@ EXCEPT !.position[2] = @ + mtv[2]])]
                  ELSE [h EXCEPT ![b] = grounded([@ EXCEPT !.position[2] = @ - mtv[2]])]
             ELSE [h EXCEPT ![a].position = <<@[1] + mtv[1], @[2], @[3] + mtv[3]>>]
        ELSE IF aDynamic
        THEN LET pushed == [h[a] EXCEPT !.position = VAdd(@, mtv)]
             IN  [h EXCEPT ![a] = IF mtv[2] > 0 THEN grounded(pushed) ELSE pushed]
        ELSE IF bDynamic
        THEN LET pushed == [h[b] EXCEPT !.position = VSub(@, mtv)]
             IN  [h EXCEPT ![b] = IF mtv[2] < 0 THEN grounded(pushed) ELSE pushed]
        ELSE h

resolveMutPushStatic(h, a, b, mtv) ==
    LET aDynamic == hasComponent(h[a], "VelocityComponent")
        bDynamic == hasComponent(h[b], "VelocityComponent")
        yDominant == Abs(mtv[2]) > Abs(mtv[1]) /\ Abs(mtv[2]) > Abs(mtv[3])
    IN  IF aDynamic /\ bDynamic
        THEN IF yDominant
             THEN IF mtv[2] > 0
                  THEN [h EXCEPT ![a] = grounded([@ EXCEPT !.position[2] = @ + mtv[2]])]
                  ELSE [h EXCEPT ![b] = grounded([@ EXCEPT !.position[2] = @ - mtv[2]])]
             ELSE [h EXCEPT ![a].position = <<@[1] + Half(mtv[1]), @[2], @[3] + Half(mtv[3])>>,
                            ![b].position = <<@[1] - Half(mtv[1]), @[2], @[3] - Half(mtv[3])>>]
        ELSE IF aDynamic
        THEN [h EXCEPT ![b].position = VSub(@, mtv)]
        ELSE IF bDynamic
        THEN [h EXCEPT ![a].position = VAdd(@, mtv)]
        ELSE h

\* positional resolution of the pair (a, b) by mtv
resolve(h, a, b, mtv) ==
    LET aDynamic == hasComponent(h[a], "VelocityComponent")
        bDynamic == hasComponent(h[b], "VelocityComponent")
        yDominant == Abs(mtv[2]) > Abs(mtv[1]) /\ Abs(mtv[2]) > Abs(mtv[3])
    IN  IF aDynamic /\ bDynamic
        THEN IF yDominant
             THEN IF mtv[2] > 0
                  THEN [h EXCEPT ![a] = grounded([@ EXCEPT !.position[2] = @ + mtv[2]])]
                  ELSE [h EXCEPT ![b] = grounded([@ EXCEPT !.position[2] = @ - mtv[2]])]
             ELSE [h EXCEPT ![a].position = <<@[1] + Half(mtv[1]), @[2], @[3] + Half(mtv[3])>>,
                            ![b].position = <<@[1] - Half(mtv[1]), @[2], @[3] - Half(mtv[3])>>]
        ELSE IF aDynamic
        THEN LET pushed == [h[a] EXCEPT !.position = VAdd(@, mtv)]
             IN  [h EXCEPT ![a] = IF mtv[2] > 0 THEN grounded(pushed) ELSE pushed]
        ELSE IF bDynamic
        THEN LET pushed == [h[b] EXCEPT !.position = VSub(@, mtv)]
             IN  [h EXCEPT ![b] = IF mtv[2] < 0 THEN grounded(pushed) ELSE pushed]
        ELSE h

collidePairMutBurnSkips(h, a, b) ==
    LET mtv == satOBB(getOBB(h[a]), getOBB(h[b]))
        c == combust(h, a, b)
    IN  IF mtv = NoMtv THEN h
        ELSE IF c.skip \/ c.heap # h THEN c.heap
        ELSE resolve(c.heap, a, b, mtv)

\* the body of the pair loop of sCollision
collidePair(h, a, b) ==
    LET mtv == satOBB(getOBB(h[a]), getOBB(h[b]))
        c == combust(h, a, b)
    IN  IF mtv = NoMtv THEN h
        ELSE IF c.skip THEN c.heap
        ELSE resolve(c.heap, a, b, mtv)

\* for (i ...) for (j = i + 1 ...) over the list taken before the loops
RECURSIVE collideFrom(_, _, _, _)
collideFrom(h, list, i, j) ==
    IF i > Len(list) THEN h
    ELSE IF j > Len(list) THEN collideFrom(h, list, i + 1, i + 2)
    ELSE LET after == collidePair(h, list[i], list[j])
         IN  IF Len(after) = Len(h) THEN collideFrom(after, list, i, j + 1) ELSE h

sCollision(h) ==
    LET h0 == resetGrounded(h)
        list == query(h0, {"CollisionComponent", "PositionComponent"})
    IN  collideFrom(h0, list, 1, 2)

\* the first loop of sLifespan
expireMutStopped(h, dt) ==
    LET sel == SeqToSet(query(h, {"LifespanComponent"}))
    IN  [r \in DOMAIN h |->
            IF r \in sel
            THEN [h[r] EXCEPT !.active = IF h[r].secondsLeft <= 0 THEN FALSE ELSE @]
            ELSE h[r]]

expireMutStrict(h, dt) ==
    LET sel == SeqToSet(query(h, {"LifespanComponent"}))
    IN  [r \in DOMAIN h |->
            IF r \in sel
            THEN [h[r] EXCEPT !.secondsLeft = @ - dt,
                              !.active = IF h[r].secondsLeft - dt < 0 THEN FALSE ELSE @]
            ELSE h[r]]

expire(h, dt) ==
    LET sel == SeqToSet(query(h, {"LifespanComponent"}))
    IN  [r \in DOMAIN h |->
            IF r \in sel
            THEN [h[r] EXCEPT !.secondsLeft = @ - dt,
                              !.active = IF h[r].secondsLeft - dt <= 0 THEN FALSE ELSE @]
            ELSE h[r]]

\* the second loop of sLifespan
cull(g) ==
    LET sel == SeqToSet(query(g, {"HealthComponent"}))
    IN  [r \in DOMAIN g |->
            IF r \in sel /\ g[r].hp <= 0 THEN [g[r] EXCEPT !.active = FALSE] ELSE g[r]]

sLifespan(h, dt) ==
    LET expired == expire(h, dt)
    IN  cull(expired)

\* the entities whose mesh sRender visits
rendered(h) ==
    {r \in SeqToSet(query(h, {"MeshComponent"})) : h[r].mesh}

\* mesh.position.copy(position) in sRender
sRender(h) ==
    [r \in DOMAIN h |->
        IF r \in rendered(h) /\ hasComponent(h[r], "PositionComponent")
        THEN [h[r] EXCEPT !.meshPosition = h[r].position]
        ELSE h[r]]

dyingMeshesMutNone == {}

\* the meshes update() detaches before the flush
dyingMeshes ==
    {r \in SeqToSet(getEntities) :
        ~isActive(heap[r]) /\ hasComponent(heap[r], "MeshComponent") /\ heap[r].mesh}

----------------------------------------------------------------------------
(* ScenePlay: one frame, stage by stage.  pc names the stage about to run. *)

\* the systems update() runs after the flush, in order
firstStageMutAlways(paused) == "sCameraControl"
firstStage(paused) == IF paused THEN "sRender" ELSE "sCameraControl"

stageAfterMutSwap(stage) ==
    CASE stage = "sCameraControl" -> "sGravity"
      [] stage = "sGravity" -> "sMovement"
      [] stage = "sMovement" -> "sCollision"
      [] stage = "sCollision" -> "sLifespan"
      [] stage = "sLifespan" -> "sRender"
      [] stage = "sRender" -> "idle"
stageAfter(stage) ==
    CASE stage = "sCameraControl" -> "sMovement"
      [] stage = "sMovement" -> "sGravity"
      [] stage = "sGravity" -> "sCollision"
      [] stage = "sCollision" -> "sLifespan"
      [] stage = "sLifespan" -> "sRender"
      [] stage = "sRender" -> "idle"

\* update(delta) up to the flush: detach the meshes of the dying, flush
BeginFrame(dt) ==
    /\ pc = "idle"
    /\ frames < MaxFrames
    /\ sceneMeshes' = sceneMeshes \ dyingMeshes
    /\ addedMeshes' = addedMeshes \ dyingMeshes
    /\ EntityManager_update
    /\ pc' = firstStage(isPaused)
    /\ delta' = dt
    /\ frames' = frames + 1
    /\ UNCHANGED <<isPaused, keys, mouse, camYaw, camPitch, camOver, camQuat, camPos, gridVars, engineVars>>

consumedMutKeep(m) == m

\* "consume mouse deltas": mouse.dx = 0; mouse.dy = 0
consumed(m) == [m EXCEPT !.dx = 0, !.dy = 0]

CameraControl ==
    /\ pc = "sCameraControl"
    /\ LET over == Abs(mouse.dx) > DeltaThreshold \/ Abs(mouse.dy) > DeltaThreshold
           drop == over /\ ~camOver
           dx == IF drop THEN 0 ELSE mouse.dx
           dy == IF drop THEN 0 ELSE mouse.dy
           yaw == IF mouse.locked THEN camYaw - dx ELSE camYaw
           pitch == IF mouse.locked THEN camPitch - dy ELSE camPitch
           clamped == Max(-QuarterTurn, Min(QuarterTurn, pitch))
           wiz == getWithID(PlayerId)
       IN  /\ camOver' = IF mouse.locked THEN over ELSE camOver
           /\ camYaw' = yaw
           /\ camPitch' = clamped
           /\ camQuat' = <<yaw, clamped>>
           /\ camPos' = IF wiz # NoEntity /\ hasComponent(heap[wiz], "PositionComponent")
                        THEN heap[wiz].position ELSE camPos
    /\ mouse' = consumed(mouse)
    /\ pc' = stageAfter(pc)
    /\ UNCHANGED <<emVars, isPaused, keys, sceneMeshes, addedMeshes, delta, frames, gridVars, engineVars>>

\* a stage that only mutates entities
SystemStep(stage, h) ==
    /\ pc = stage
    /\ heap' = h
    /\ pc' = stageAfter(pc)
    /\ UNCHANGED <<entities, entitiesToAdd, entityMap, entityCount, isPaused, keys, mouse,
                   camYaw, camPitch, camOver, camQuat, camPos, sceneMeshes, addedMeshes,
                   delta, frames, gridVars, engineVars>>

Movement == SystemStep("sMovement", sMovement(heap, keys, camQuat, delta))
Gravity == SystemStep("sGravity", sGravity(heap, delta))
Collision == SystemStep("sCollision", sCollision(heap))
Lifespan == SystemStep("sLifespan", sLifespan(heap, delta))

Render ==
    /\ pc = "sRender"
    /\ heap' = sRender(heap)
    /\ sceneMeshes' = sceneMeshes \cup (rendered(heap) \ addedMeshes)
    /\ addedMeshes' = addedMeshes \cup rendered(heap)
    /\ pc' = stageAfter(pc)
    /\ UNCHANGED <<entities, entitiesToAdd, entityMap, entityCount, isPaused, keys, mouse,
                   camYaw, camPitch, camOver, camQuat, camPos, delta, frames, gridVars, engineVars>>

----------------------------------------------------------------------------
(* Events between frames: the DOM listeners of GameEngine and ScenePlay    *)

MaxSpawns == 2      \* entities spawned after init()

DefaultCount == 4   \* entities created by init(): player, zombie, box, floor

spawnFireball(origin, direction) ==
    addEntity(fireballComponents(created("fireballEntity"), origin, direction))

spawnZombie(position) ==
    addEntity(zombieComponents(created("zombieEntity"), position))

\* sDoAction(new Action(name, 'start'))
sDoAction(name) ==
    /\ isPaused' = IF name = "pause" THEN ~isPaused ELSE isPaused
    /\ IF name = "attack"
       THEN LET direction == camDirection(camQuat)
            IN  spawnFireball(VAdd(camPos, VScale(direction, FireballOffset)), direction)
       ELSE UNCHANGED emVars

actionMap(code) ==
    CASE code = "KeyW" -> "moveForward"
      [] code = "KeyS" -> "moveBackward"
      [] code = "KeyA" -> "moveLeft"
      [] code = "KeyD" -> "moveRight"
      [] code = "Space" -> "jump"
      [] code = "Mouse0" -> "attack"
      [] code = "KeyP" -> "pause"

\* the codes a system reads from input.keys (the others are set and never read)
ReadKeys == {"KeyW", "KeyS", "KeyA", "KeyD", "Space"}

KeyDown(code) ==
    /\ pc = "idle"
    /\ sDoAction(actionMap(code))
    /\ keys' = keys \cup ({code} \cap ReadKeys)
    /\ UNCHANGED <<mouse, camVars, meshVars, ctlVars, gridVars, engineVars>>

\* keyup: the action has phase 'stop', which sDoAction ignores
KeyUp(code) ==
    /\ pc = "idle"
    /\ code \in keys
    /\ keys' = keys \ {code}
    /\ UNCHANGED <<emVars, isPaused, mouse, camVars, meshVars, ctlVars, gridVars, engineVars>>

MouseDown ==
    /\ pc = "idle"
    /\ mouse.buttons = 0
    /\ Len(heap) < DefaultCount + MaxSpawns
    /\ sDoAction(actionMap("Mouse0"))
    /\ mouse' = [mouse EXCEPT !.buttons = 1]
    /\ UNCHANGED <<keys, camVars, meshVars, ctlVars, gridVars, engineVars>>

MouseUp ==
    /\ pc = "idle"
    /\ mouse.buttons = 1
    /\ mouse' = [mouse EXCEPT !.buttons = 0]
    /\ UNCHANGED <<emVars, isPaused, keys, camVars, meshVars, ctlVars, gridVars, engineVars>>

SpawnZombie(position) ==
    /\ pc = "idle"
    /\ Len(heap) < DefaultCount + MaxSpawns
    /\ spawnZombie(position)
    /\ UNCHANGED <<isPaused, keys, mouse, camVars, meshVars, ctlVars, gridVars, engineVars>>

----------------------------------------------------------------------------
(* The scene after init(): the default entities, created in the order of   *)
(* _initDefaultEntities and _initDefaultWorld and not yet flushed.  The    *)
(* ring of invisible walls (radius 22) is out of reach of every entity     *)
(* within MaxFrames and is left out.                                       *)

PlayerStart == <<0, 80, 0>>                 \* playerConfig: (0, 2, 0)
ZombieStart == <<0, 40, -800>>              \* (0, 1, -20)
BoxStart == <<0, 40, -400>>                 \* (0, 1, -10)
FloorCenter == <<0, -200, 0>>               \* (0, -5, 0)
FloorHalf == <<856, 200, 856>>              \* (r, 5, r), r = 22 - 1.2 / 2
SpawnSpots == {<<0, 40, -100>>, <<0, 80, -100>>}   \* positions given to spawnZombie
FrameDeltas == {1, 3}                       \* 0.1 s and 0.3 s
SceneKeys == {"Space", "KeyP"}

Init ==
    /\ heap = << wizard(Entity(0, "wizardEntity"), PlayerStart),
                 zombieComponents(Entity(1, "zombieEntity"), ZombieStart),
                 staticBox(Entity(2, "staticBoxEntity"), BoxStart),
                 floorEntity(Entity(3, "floor"), FloorCenter, FloorHalf) >>
    /\ entities = <<>>
    /\ entitiesToAdd = <<1, 2, 3, 4>>
    /\ entityMap = << >>
    /\ entityCount = DefaultCount
    /\ sceneIdle
    /\ gridEmpty
    /\ engineIdle

Next ==
    \/ \E code \in SceneKeys : KeyDown(code)
    \/ \E code \in SceneKeys \cap ReadKeys : KeyUp(code)
    \/ MouseDown
    \/ MouseUp
    \/ \E p \in SpawnSpots : SpawnZombie(p)
    \/ \E dt \in FrameDeltas : BeginFrame(dt)
    \/ CameraControl
    \/ Movement
    \/ Gravity
    \/ Collision
    \/ Lifespan
    \/ Render

Spec == Init /\ [][Next]_vars

----------------------------------------------------------------------------
(* Claims about the store, checked under SpecStore *)

Buffered == SeqToSet(entitiesToAdd)
Live == SeqToSet(entities)
TagList(r) == getEntitiesWithTag(heap[r].tag)
\* r has been pruned: flushed once, then removed from the live list
Pruned(r) == r \notin Live /\ r \notin Buffered
\* the step is a call of EntityManager.update()
IsUpdate == EntityManager_update
QueryBags == {{}, {"PositionComponent"}}

\* what no query returns
Hidden(r) ==
    /\ \A names \in QueryBags : r \notin SeqToSet(getWithComponentName(names))
    /\ getWithID(heap[r].id) # r
    /\ r \notin SeqToSet(TagList(r))

C2_Original ==
    \A r \in Live : ~isActive(heap[r]) => getWithID(heap[r].id) = r

\* C2 amended: between destroy() and the pruning update() the entity is still
\* on the live list (getEntities) with isActive() = false, but getWithID(id)
\* returns null; for an active entity of the live list getWithID(id) is it.
C2_DestroyedNotFoundById ==
    \A r \in Live :
        /\ Count(getEntities, r) = 1
        /\ getWithID(heap[r].id) = (IF isActive(heap[r]) THEN r ELSE NoEntity)

C2_Witness == \E r \in Live : ~isActive(heap[r])

\* C3 as stated: the result of getWithComponentName changes only at update().
C3_Original ==
    [][ ~IsUpdate =>
          \A names \in QueryBags :
              getWithComponentName(names)' = getWithComponentName(names) ]_vars

\* C3 amended: creation is visible to getWithComponentName only after
\* update(), but destruction at once: outside update() the result of a query
\* changes exactly by losing the entities that have just been destroyed, which
\* stay on the live list until update().
C3_DestroyVisibleAtOnce ==
    [][ ~IsUpdate =>
          /\ entities' = entities
          /\ \A names \in QueryBags :
                getWithComponentName(names)' =
                    SelectSeq(getWithComponentName(names),
                              LAMBDA r : isActive(heap'[r])) ]_vars

\* an entity of the live list is destroyed and not yet pruned, beside an active one
C3_Witness ==
    \E r \in Live, s \in Live :
        /\ ~isActive(heap[r]) /\ isActive(heap[s])
        /\ hasComponent(heap[r], "PositionComponent")

\* C4: once update() has run after destroy(), the entity is on no list of the
\* store; it never comes back on one, its flag never becomes true again, and
\* no query returns it.
C4_DestroyHonoured ==
    [][ /\ IsUpdate =>
              \A r \in Refs : ~isActive(heap[r]) =>
                 /\ r \notin SeqToSet(entities')
                 /\ r \notin SeqToSet(entitiesToAdd')
                 /\ \A t \in DOMAIN entityMap' : r \notin SeqToSet(entityMap'[t])
        /\ \A r \in Refs : ~isActive(heap[r]) =>
              /\ ~isActive(heap'[r])
              /\ Pruned(r) =>
                    /\ r \notin SeqToSet(entities')
                    /\ r \notin SeqToSet(entitiesToAdd')
                    /\ \A t \in DOMAIN entityMap' : r \notin SeqToSet(entityMap'[t])
              /\ \A names \in QueryBags : r \notin SeqToSet(getWithComponentName(names))
              /\ getWithID(heap[r].id) # r
      ]_vars

\* a destroyed entity has been pruned while another entity is live
C4_Witness ==
    \E r \in Refs, s \in Live :
        ~isActive(heap[r]) /\ Pruned(r) /\ isActive(heap[s])

\* C5: the n-th entity constructed has id n-1, whatever was destroyed and
\* pruned in between (so ids increase with creation, are never shared and
\* never assigned again), and entityCount is the number constructed.
C5_IdsCountCreations ==
    /\ \A r \in Refs : heap[r].id = r - 1
    /\ entityCount = Len(heap)

\* an entity was created after an earlier one had been pruned
C5_Witness ==
    \E r \in Refs, s \in Buffered :
        r < s /\ ~isActive(heap[r]) /\ Pruned(r)

\* C6: an entity is constructed active; once destroy() has been called
\* isActive() is false for ever, and destroy() on it again changes nothing.
C6_AliveFlagWriteOnce ==
    [][ /\ \A r \in Refs : ~isActive(heap[r]) =>
              /\ ~isActive(heap'[r])
              /\ destroy(heap, r) = heap
        /\ \A r \in Refs : isActive(heap[r]) => ~isActive(destroy(heap, r)[r])
        /\ \A r \in (1..Len(heap')) \ Refs : isActive(heap'[r])
      ]_vars

\* a destroyed entity beside an active one
C6_Witness ==
    \E r \in Refs, s \in Refs : ~isActive(heap[r]) /\ isActive(heap[s])

----------------------------------------------------------------------------
(* Claims about the frame, checked under Spec *)

\* the stage that update() runs after `stage` when the scene is not paused
OrderOfUpdate ==
    [sCameraControl |-> "sMovement", sMovement |-> "sGravity", sGravity |-> "sCollision",
     sCollision |-> "sLifespan", sLifespan |-> "sRender", sRender |-> "idle"]

\* C7: a frame starts with the flush, which leaves the buffer empty and no
\* dead entity on the live list; no later step of the frame touches the lists
\* of the store; a frame that is not paused then runs camera control,
\* movement, gravity, collision, lifespan and render, each once and in this
\* order, and ends.
C7_FlushThenStagesInOrder ==
    [][ /\ pc = "idle" /\ pc' # "idle" =>
              /\ entitiesToAdd' = <<>>
              /\ entities' = SelectSeq(entities \o entitiesToAdd,
                                       LAMBDA r : isActive(heap[r]))
              /\ ~isPaused => pc' = "sCameraControl"
        /\ pc # "idle" =>
              /\ entities' = entities
              /\ entitiesToAdd' = entitiesToAdd
              /\ entityMap' = entityMap
              /\ isPaused' = isPaused
              /\ ~isPaused => pc' = OrderOfUpdate[pc]
      ]_vars

\* a second frame, not paused, has run to its end and has flushed a fireball
C7_Witness ==
    /\ pc = "idle" /\ frames >= 2 /\ ~isPaused
    /\ \E r \in Live : heap[r].tag = "fireballEntity"

Dynamic(h) == SeqToSet(query(h, {"PositionComponent", "VelocityComponent"}))

\* C8 as stated: the flag is cleared before movement and gravity run, so
\* both stages find it false on every dynamic entity.
C8_Original ==
    pc \in {"sMovement", "sGravity"} => \A r \in Dynamic(heap) : ~heap[r].isOnGround

\* C8 amended: the flag is cleared at the start of the collision stage, after
\* the movement and gravity of the frame: no other stage writes it, so the
\* jump check and the gravity check read what the collision pass of the frame
\* before left (a grounded player holding Space jumps, a grounded entity does
\* not fall), and after the collision stage it is true only on an entity that
\* this pass has put on the ground, with vertical velocity 0.
C8_GroundedClearedInCollision ==
    [][ /\ pc # "sCollision" =>
              \A r \in Refs : heap'[r].isOnGround = heap[r].isOnGround
        /\ pc = "sMovement" =>
              \A r \in Dynamic(heap) :
                 hasComponent(heap[r], "InputComponent") /\ heap[r].isOnGround
                    /\ "Space" \in keys
                 => heap'[r].velocity[2] = JumpStrength
        /\ pc = "sGravity" =>
              \A r \in Dynamic(heap) :
                 heap[r].isOnGround =>
                    /\ heap'[r].position = heap[r].position
                    /\ heap'[r].velocity = heap[r].velocity
        /\ pc = "sCollision" =>
              \A r \in Dynamic(heap) :
                 heap'[r].isOnGround => heap'[r].velocity[2] = 0
      ]_vars

\* the gravity stage is about to run on a player that movement found grounded
\* and made jump
C8_Witness ==
    /\ pc = "sGravity"
    /\ \E r \in Dynamic(heap) :
          heap[r].isOnGround /\ heap[r].velocity[2] = JumpStrength

\* the list the collision pass walks, and its pairs that overlap when the
\* pass starts
Colliders == query(heap, {"CollisionComponent", "PositionComponent"})
OverlappingPairs ==
    {p \in (1 .. Len(Colliders)) \X (1 .. Len(Colliders)) :
        /\ p[1] < p[2]
        /\ satOBB(getOBB(heap[Colliders[p[1]]]), getOBB(heap[Colliders[p[2]]])) # NoMtv}
Combustible(r) == hasComponent(heap[r], "CombustibleComponent")
HasHealth(r) == hasComponent(heap[r], "HealthComponent")

\* the collision pass destroys a and takes 30 from the Health of b, if b has
\* one, and changes no other hp
Burns(a, b) ==
    /\ ~isActive(heap'[a])
    /\ heap'[b].active = heap[b].active
    /\ heap'[b].hp = IF HasHealth(b) THEN heap[b].hp - 30 ELSE heap[b].hp
    /\ \A r \in Refs \ {b} : heap'[r].hp = heap[r].hp

\* C9: when the collision pass finds exactly one overlapping pair, with
\* exactly one Combustible side A and the other side B not entity id 0, in
\* either order of the pair, it destroys A and leaves B alive; B loses 30 hp if
\* it has a Health (100 becomes 70); if B has none, A is destroyed all the same
\* and no hp changes.
C9_CombustibleBurnsOnContact ==
    [][ pc = "sCollision" =>
          \A p \in OverlappingPairs :
             LET a == Colliders[p[1]]
                 b == Colliders[p[2]]
             IN  OverlappingPairs = {p} =>
                   /\ Combustible(a) /\ ~Combustible(b) /\ heap[b].id # 0 => Burns(a, b)
                   /\ Combustible(b) /\ ~Combustible(a) /\ heap[a].id # 0 => Burns(b, a)
      ]_vars

\* the collision pass is about to run with one overlapping pair, whose
\* sides satisfy Case(first, second)
SolePair(Case(_, _)) ==
    /\ pc = "sCollision"
    /\ Cardinality(OverlappingPairs) = 1
    /\ \E p \in OverlappingPairs : Case(Colliders[p[1]], Colliders[p[2]])

\* ... a fireball and a zombie at full health that comes after it in the list
C9_Witness ==
    SolePair(LAMBDA a, b : /\ Combustible(a) /\ ~Combustible(b) /\ heap[b].id # 0
                           /\ HasHealth(b) /\ heap[b].hp = 100)

\* ... a zombie at full health and a fireball that comes after it
C9_WitnessZombieFirst ==
    SolePair(LAMBDA b, a : /\ Combustible(a) /\ ~Combustible(b) /\ heap[b].id # 0
                           /\ HasHealth(b) /\ heap[b].hp = 100)

\* ... a box without Health and a fireball
C9_WitnessNoHealth ==
    SolePair(LAMBDA b, a : /\ Combustible(a) /\ ~Combustible(b) /\ heap[b].id # 0
                           /\ ~HasHealth(b))

\* C10 as stated: when both sides of the overlapping pair are Combustible,
\* the pass destroys neither and changes the Health of neither.
C10_Original ==
    [][ pc = "sCollision" =>
          \A p \in OverlappingPairs :
             LET a == Colliders[p[1]]
                 b == Colliders[p[2]]
             IN  OverlappingPairs = {p} /\ Combustible(a) /\ Combustible(b) =>
                   /\ heap'[a].active = heap[a].active /\ heap'[a].hp = heap[a].hp
                   /\ heap'[b].active = heap[b].active /\ heap'[b].hp = heap[b].hp
      ]_vars

\* C10 amended: when both sides of the only overlapping pair are Combustible
\* and neither is entity id 0, the pass destroys both, and each that has a
\* Health loses 30 hp.
C10_BothCombustibleBothBurn ==
    [][ pc = "sCollision" =>
          \A p \in OverlappingPairs :
             LET a == Colliders[p[1]]
                 b == Colliders[p[2]]
             IN  OverlappingPairs = {p} /\ Combustible(a) /\ Combustible(b)
                    /\ heap[a].id # 0 /\ heap[b].id # 0 =>
                   /\ ~isActive(heap'[a]) /\ ~isActive(heap'[b])
                   /\ heap'[a].hp = IF HasHealth(a) THEN heap[a].hp - 30 ELSE heap[a].hp
                   /\ heap'[b].hp = IF HasHealth(b) THEN heap[b].hp - 30 ELSE heap[b].hp
                   /\ \A r \in Refs \ {a, b} : heap'[r].hp = heap[r].hp
      ]_vars

\* the collision pass is about to run on two fireballs that overlap each other
\* and nothing else
C10_Witness ==
    SolePair(LAMBDA a, b : /\ Combustible(a) /\ Combustible(b)
                           /\ heap[a].id # 0 /\ heap[b].id # 0)

----------------------------------------------------------------------------
(* A frame in the middle of a game.  The scene is the default one, flushed, *)
(* with fireballs in flight; the frame is at the stage `stage`.  The        *)
(* positions are ones the entities reach with frame times that FrameDeltas  *)
(* does not contain (at 60 frames per second a fireball advances by 0.25    *)
(* and a walking player by 0.17 in a frame).                                *)

\* the tag index update() has built for the live list `list`
indexByTag(h, list) ==
    [t \in {h[list[i]].tag : i \in DOMAIN list} |->
        SelectSeq(list, LAMBDA r : h[r].tag = t)]

\* the player at p, with vertical velocity vy and the grounded flag `ground`
wizardAt(p, vy, ground) ==
    [wizard(Entity(0, "wizardEntity"), p) EXCEPT !.velocity = <<0, vy, 0>>,
                                                !.isOnGround = ground]

\* the default zombie, moved to p and hit down to hp
zombieAt(p, hp) == [zombieComponents(Entity(1, "zombieEntity"), p) EXCEPT !.hp = hp]

\* a fireball cast along `direction`, now at p with secs left to live
fireballAt(id, p, direction, secs) ==
    [fireballComponents(Entity(id, "fireballEntity"), p, direction)
        EXCEPT !.secondsLeft = secs]

\* the four default entities
defaults(player, zombie) ==
    << player, zombie,
       staticBox(Entity(2, "staticBoxEntity"), BoxStart),
       floorEntity(Entity(3, "floor"), FloorCenter, FloorHalf) >>

MidGame(h, ks, yaw, stage, dt) ==
    /\ heap = h
    /\ entities = [i \in 1 .. Len(h) |-> i]
    /\ entitiesToAdd = <<>>
    /\ entityMap = indexByTag(h, [i \in 1 .. Len(h) |-> i])
    /\ entityCount = Len(h)
    /\ isPaused = FALSE
    /\ keys = ks
    /\ mouse = [dx |-> 0, dy |-> 0, buttons |-> 0, locked |-> TRUE]
    /\ camYaw = yaw /\ camPitch = 0 /\ camOver = FALSE
    /\ camQuat = <<yaw, 0>> /\ camPos = h[1].position
    /\ sceneMeshes = {r \in DOMAIN h : h[r].mesh}
    /\ addedMeshes = {r \in DOMAIN h : h[r].mesh}
    /\ pc = stage /\ delta = dt /\ frames = MaxFrames - 1
    /\ gridEmpty
    /\ engineIdle

PlayerRest == <<0, 40, 0>>                  \* standing on the floor
MoveKeys == {"KeyW", "KeyS", "KeyA", "KeyD"}
\* the key sets whose move vector is parallel to an axis of the camera (the
\* diagonal ones have irrational components)
StraightKeys ==
    {ks \in SUBSET MoveKeys :
        \/ Held(ks, "KeyW") = Held(ks, "KeyS")
        \/ Held(ks, "KeyD") = Held(ks, "KeyA")}
Yaws == {0, QuarterTurn, 2 * QuarterTurn, 3 * QuarterTurn}

\* before movement: the player on the floor, grounded or not by the last
\* collision pass, any straight key set held
InitMove ==
    \E ks \in StraightKeys, yaw \in Yaws, dt \in FrameDeltas, space \in BOOLEAN,
       ground \in BOOLEAN :
       MidGame(defaults(wizardAt(PlayerRest, 0, ground), zombieAt(ZombieStart, ZombieHealth)),
               ks \cup (IF space THEN {"Space"} ELSE {}), yaw, "sMovement", dt)

OnBox == <<0, 120, -400>>                   \* standing on the static box
\* before gravity: the player with its bottom exactly on the floor or on the box
InitGround ==
    \E p \in {PlayerRest, OnBox}, vy \in {0, -2}, ground \in BOOLEAN, dt \in FrameDeltas :
       MidGame(defaults(wizardAt(p, vy, ground), zombieAt(ZombieStart, ZombieHealth)),
               {}, 0, "sGravity", dt)

\* where a fireball can be when the collision pass starts: one frame of
\* 1/144 s after a level cast (still inside the player), one frame of 1/60 s
\* after a cast straight down (inside the player and the floor), ahead of the
\* player in the air, and ahead of the player sunk in the floor
BallSpots == {<<0, 40, -28>>, <<0, 6, 0>>, <<0, 40, -84>>, <<0, 6, -84>>}
ZombieNear == <<0, 40, -40>>                \* next to the player, touching it
BallFlights ==
    {<<p>> : p \in BallSpots} \cup {<<p, q>> : p \in BallSpots, q \in BallSpots}

balls(flight, secs) ==
    [i \in DOMAIN flight |-> fireballAt(DefaultCount + i - 1, flight[i], <<0, 0, -1>>, secs)]

\* before the collision pass: the player on the floor, one or two fireballs
InitBurn ==
    \E z \in {ZombieStart, ZombieNear}, flight \in BallFlights, dt \in FrameDeltas :
       MidGame(defaults(wizardAt(PlayerRest, 0, TRUE), zombieAt(z, ZombieHealth))
                  \o balls(flight, FireballLifetime - dt),
               {}, 0, "sCollision", dt)

\* before the lifespan pass: a zombie hit by zero, three or four fireballs, a
\* fireball in the air with secs left, alive or destroyed by this frame's
\* collision pass
InitExpire ==
    \E hp \in {ZombieHealth, ZombieHealth - 3 * CombustDamage, ZombieHealth - 4 * CombustDamage},
       secs \in {1, 2, 3, 4, FireballLifetime}, alive \in BOOLEAN, dt \in FrameDeltas :
       MidGame(defaults(wizardAt(PlayerRest, 0, TRUE), zombieAt(ZombieStart, hp))
                  \o << [fireballAt(DefaultCount, <<0, 40, -84>>, <<0, 0, -1>>, secs)
                           EXCEPT !.active = alive] >>,
               {}, 0, "sLifespan", dt)

InitPass == InitMove \/ InitGround \/ InitBurn \/ InitExpire

\* the rest of the frame, and the frame after it
NextPass ==
    \/ \E dt \in FrameDeltas : BeginFrame(dt)
    \/ CameraControl
    \/ Movement
    \/ Gravity
    \/ Collision
    \/ Lifespan
    \/ Render

SpecPass == InitPass /\ [][NextPass]_vars

----------------------------------------------------------------------------
(* Claims about the passes of a frame, checked under SpecPass *)

Overlap(a, b) == satOBB(getOBB(heap[a]), getOBB(heap[b])) # NoMtv

\* C11 as stated: a Combustible entity that overlaps entity id 0 when the
\* collision pass starts is not destroyed by the pass, and the pass does not
\* change the Health of entity 0.
C11_Original ==
    [][ pc = "sCollision" =>
          \A p \in OverlappingPairs :
             LET a == Colliders[p[1]]
                 b == Colliders[p[2]]
             IN  /\ heap[a].id = 0 /\ Combustible(b) =>
                       isActive(heap'[b]) /\ heap'[a].hp = heap[a].hp
                 /\ heap[b].id = 0 /\ Combustible(a) =>
                       isActive(heap'[a]) /\ heap'[b].hp = heap[b].hp
      ]_vars

\* C11 amended: the collision pass never changes the Health of entity 0; a
\* pair of a Combustible entity and entity 0 that overlap is left as it is by
\* the body of the pair loop, whichever of the two comes first; so when this
\* pair is the only one that overlaps, the pass destroys nothing and changes
\* no hp and no position.  (A Combustible entity that overlaps entity 0 and
\* another entity as well is destroyed through the other pair.)
C11_PlayerPairLeftAlone ==
    [][ pc = "sCollision" =>
          /\ \A r \in Refs : heap[r].id = 0 => heap'[r].hp = heap[r].hp
          /\ \A f \in SeqToSet(Colliders), q \in SeqToSet(Colliders) :
                Combustible(f) /\ heap[q].id = 0 /\ Overlap(f, q) =>
                   /\ collidePair(heap, f, q) = heap
                   /\ collidePair(heap, q, f) = heap
          /\ \A p \in OverlappingPairs :
                LET a == Colliders[p[1]]
                    b == Colliders[p[2]]
                IN  OverlappingPairs = {p} /\ heap[a].id = 0 /\ Combustible(b) =>
                       \A r \in Refs :
                          /\ heap'[r].active = heap[r].active
                          /\ heap'[r].hp = heap[r].hp
                          /\ heap'[r].position = heap[r].position
      ]_vars

\* the collision pass is about to run on a fireball that is inside the player
\* and touches nothing else
C11_Witness ==
    SolePair(LAMBDA a, b : heap[a].id = 0 /\ Combustible(b))

HasLifespan(r) == hasComponent(heap[r], "LifespanComponent")

----------------------------------------------------------------------------
(* The separation test on its own: two boxes A (heap[1]) and B (heap[2]),   *)
(* turned by whole quarter turns about Y, and the collision pass on them.   *)

MaxReach == 4        \* A's center is within MaxReach of B's on X and Y

BoxVelocity == <<1, -2, 0>>      \* the velocity of a dynamic box

\* an entity with a Position and a Collision, and a Velocity if it is dynamic
boxEntity(id, center, half, rot, dynamic) ==
    LET fixed == withCollision(withPosition(Entity(id, "box"), center), half, rot)
    IN  IF dynamic THEN withVelocity(fixed, BoxVelocity) ELSE fixed

HalvesA == {<<1, 1, 1>>, <<1, 2, 1>>, <<2, 1, 1>>}
HalvesB == {<<2, 2, 2>>, <<6, 1, 6>>, <<2, 2, 4>>}
Turns == {0, 1}

\* which of the two is dynamic; when both are, the id of A (the player's or
\* another) and whether B is combustible, and lengths are in half units so
\* that half an overlap is a whole number; and a combustible dynamic B on a
\* static A
SatPairs ==
    {[aDynamic |-> d, bDynamic |-> ~d, idA |-> 0, burning |-> FALSE, unit |-> 1] :
        d \in BOOLEAN}
    \cup {[aDynamic |-> TRUE, bDynamic |-> TRUE, idA |-> id, burning |-> c, unit |-> 2] :
        id \in {0, 2}, c \in BOOLEAN}
    \cup {[aDynamic |-> FALSE, bDynamic |-> TRUE, idA |-> 2, burning |-> TRUE, unit |-> 1]}

InitSat ==
    \E x \in -MaxReach .. MaxReach, y \in -MaxReach .. MaxReach, z \in {0, 1},
       halfA \in HalvesA, halfB \in HalvesB, rotA \in Turns, rotB \in Turns,
       pair \in SatPairs :
       LET a == boxEntity(pair.idA, VScale(<<x, y, z>>, pair.unit),
                          VScale(halfA, pair.unit), rotA, pair.aDynamic)
           b == boxEntity(1, Zero3, VScale(halfB, pair.unit), rotB, pair.bDynamic)
       IN  MidGame(<< a, IF pair.burning THEN withMarker(b, "CombustibleComponent") ELSE b >>,
                   {}, 0, "sCollision", 1)

NextSat == Collision

SpecSat == InitSat /\ [][NextSat]_vars

----------------------------------------------------------------------------
(* Claims about satOBB, checked under SpecSat *)

BoxA == getOBB(heap[1])
BoxB == getOBB(heap[2])
Mtv == satOBB(BoxA, BoxB)
\* the six axes satOBB tests, in its order: A.x, A.y, A.z, B.x, B.y, B.z
TestedAxes == obbAxes(BoxA) \o obbAxes(BoxB)
\* min(maxA, maxB) - max(minA, minB) of the projections on axis
AxisOverlap(axis) ==
    Min(projectOBB(BoxA, axis).max, projectOBB(BoxB, axis).max)
      - Max(projectOBB(BoxA, axis).min, projectOBB(BoxB, axis).min)

\* the half extents of the box of e along the world axes, and the overlap
\* of the two boxes along world axis k, from the coordinates alone
worldHalf(e) ==
    IF e.rotation % 2 = 1 THEN <<e.half[3], e.half[2], e.half[1]>> ELSE e.half
WorldOverlap(k) ==
    Min(heap[1].position[k] + worldHalf(heap[1])[k],
        heap[2].position[k] + worldHalf(heap[2])[k])
      - Max(heap[1].position[k] - worldHalf(heap[1])[k],
            heap[2].position[k] - worldHalf(heap[2])[k])
LeastWorldOverlap == Min(WorldOverlap(1), Min(WorldOverlap(2), WorldOverlap(3)))
Unturned == heap[1].rotation = 0 /\ heap[2].rotation = 0

\* C13: satOBB(A, B) is null exactly if the projections of A and B on one of
\* the six tested axes have overlap <= 0, touching (overlap 0) included; it is
\* a vector only if the overlap is > 0 on every tested axis.
C13_NullIffSeparatedOrTouching ==
    (Mtv = NoMtv) <=> (\E i \in 1 .. 6 : AxisOverlap(TestedAxes[i]) <= 0)

\* the two boxes touch: overlap 0 on one axis, no axis with a gap
C13_Witness ==
    /\ Mtv = NoMtv
    /\ \E i \in 1 .. 6 : AxisOverlap(TestedAxes[i]) = 0
    /\ \A i \in 1 .. 6 : AxisOverlap(TestedAxes[i]) >= 0

\* C14: for two overlapping boxes aligned with the world axes, satOBB(A, B)
\* lies along one world axis, its length is the smallest of the three
\* per-axis overlaps, and its dot product with centerA - centerB is >= 0.
C14_MtvOfAlignedBoxes ==
    Mtv # NoMtv =>
       /\ \E k \in 1 .. 3 :
             /\ Abs(Mtv[k]) = LeastWorldOverlap
             /\ \A j \in (1 .. 3) \ {k} : Mtv[j] = 0
       /\ LeastWorldOverlap > 0
       /\ Dot(Mtv, VSub(heap[1].position, heap[2].position)) >= 0

\* two unturned overlapping boxes, A on the negative side of B along the
\* axis of the MTV
C14_Witness ==
    /\ Unturned /\ Mtv # NoMtv
    /\ \E k \in 1 .. 3 : Mtv[k] < 0 /\ heap[1].position[k] < heap[2].position[k]

\* the first of the six tested axes whose overlap is the least
FirstLeastAxis ==
    CHOOSE i \in 1 .. 6 :
       /\ \A j \in 1 .. 6 : AxisOverlap(TestedAxes[i]) <= AxisOverlap(TestedAxes[j])
       /\ \A j \in 1 .. (i - 1) : AxisOverlap(TestedAxes[i]) < AxisOverlap(TestedAxes[j])
\* axis, turned to point from B's center to A's
Oriented(axis) ==
    IF Dot(VSub(heap[1].position, heap[2].position), axis) < 0
    THEN VScale(axis, -1) ELSE axis

\* C15: when several tested axes have the same least overlap, the MTV is along
\* the first of them in the order A.x, A.y, A.z, B.x, B.y, B.z; for unturned
\* boxes whose X and Y overlaps are equal and the least, it is along X.
C15_TieGoesToFirstAxis ==
    Mtv # NoMtv =>
       /\ Mtv = VScale(Oriented(TestedAxes[FirstLeastAxis]),
                       AxisOverlap(TestedAxes[FirstLeastAxis]))
       /\ Unturned /\ WorldOverlap(1) = WorldOverlap(2) /\ WorldOverlap(1) <= WorldOverlap(3)
             => Mtv[1] # 0 /\ Mtv[2] = 0

\* unturned overlapping boxes with equal X and Y overlaps, less than the Z one
C15_Witness ==
    /\ Unturned /\ Mtv # NoMtv
    /\ WorldOverlap(1) = WorldOverlap(2) /\ WorldOverlap(1) < WorldOverlap(3)

\* C16 as stated: if m = satOBB(A, B) is a vector, then A moved by m, and B
\* moved by -m, no longer overlap the other box.
C16_TranslationResolves ==
    Mtv # NoMtv =>
       /\ satOBB([BoxA EXCEPT !.center = VAdd(@, Mtv)], BoxB) = NoMtv
       /\ satOBB(BoxA, [BoxB EXCEPT !.center = VSub(@, Mtv)]) = NoMtv

\* the top face and the bottom face of the (unturned) box of entity r
Top(h, r) == h[r].position[2] + h[r].half[2]
Bottom(h, r) == h[r].position[2] - h[r].half[2]
\* the boxes of r and s overlap when seen from above
Above(r, s) ==
    /\ Abs(heap[r].position[1] - heap[s].position[1]) < heap[r].half[1] + heap[s].half[1]
    /\ Abs(heap[r].position[3] - heap[s].position[3]) < heap[r].half[3] + heap[s].half[3]
\* gravity has been applied to r in this frame (the flag was false), and
\* before that r was not moving up and its bottom was exactly on the top
\* face of the static s
FellFromRestOn(r, s) ==
    /\ hasComponent(heap[r], "GravityComponent")
    /\ hasComponent(heap[r], "VelocityComponent")
    /\ ~hasComponent(heap[s], "VelocityComponent")
    /\ ~heap[r].isOnGround
    /\ heap[r].velocity[2] + (GravityAccel * delta) \div 10 <= 0
    /\ Above(r, s)
    /\ Bottom(heap, r) - Step(heap[r].velocity, delta)[2] = Top(heap, s)

\* C17 as stated: a gravity-affected dynamic entity that rested with its
\* bottom exactly on the top face of a static box when gravity was applied to
\* it (delta > 0) ends the collision pass of that frame grounded, with vertical velocity 0
\* and its bottom not below that top face.
C17_RestingEntityStaysOnTop ==
    [][ pc = "sCollision" /\ delta > 0 =>
          \A r \in SeqToSet(Colliders), s \in SeqToSet(Colliders) :
             FellFromRestOn(r, s) =>
                /\ heap'[r].isOnGround
                /\ heap'[r].velocity[2] = 0
                /\ Bottom(heap', r) >= Top(heap', s)
      ]_vars

\* the same, for the frames in which gravity made the entity fall by less
\* than its width
C17_HoldsForShortFalls ==
    [][ pc = "sCollision" /\ delta > 0 =>
          \A r \in SeqToSet(Colliders), s \in SeqToSet(Colliders) :
             FellFromRestOn(r, s) /\ Top(heap, s) - Bottom(heap, r) < 2 * heap[r].half[1] =>
                /\ heap'[r].isOnGround
                /\ heap'[r].velocity[2] = 0
                /\ Bottom(heap', r) = Top(heap', s)
      ]_vars

\* the opposite inputs cancel: forward and backward both held with left and
\* right balanced, or left and right both held with forward and backward
\* balanced
Cancelled ==
    \/ /\ {"KeyW", "KeyS"} \subseteq keys
       /\ ("KeyA" \in keys) = ("KeyD" \in keys)
    \/ /\ {"KeyA", "KeyD"} \subseteq keys
       /\ ("KeyW" \in keys) = ("KeyS" \in keys)

\* C18: when the held movement keys cancel, the movement stage leaves the X
\* and Z position of the player-controlled entity unchanged, whatever the
\* orientation of the camera.
C18_OppositeInputsCancel ==
    [][ pc = "sMovement" /\ Cancelled =>
          \A r \in Dynamic(heap) :
             hasComponent(heap[r], "InputComponent") =>
                /\ heap'[r].position[1] = heap[r].position[1]
                /\ heap'[r].position[3] = heap[r].position[3]
      ]_vars

\* movement is about to run with forward and backward held and the camera
\* turned away from its first direction
C18_Witness ==
    /\ pc = "sMovement"
    /\ {"KeyW", "KeyS"} \subseteq keys
    /\ Quarter(camQuat[1]) # 0
    /\ \E r \in Dynamic(heap) : hasComponent(heap[r], "InputComponent")

-----------------------------------------------------------------------------
(* spatialGrid.js: the uniform grid of the broad phase.                    *)
(* Lengths of this section are in 1/1000 world unit, so that the epsilon   *)
(* of _boundsToCell is 1. A bounds object is a record with min and max,    *)
(* each with x and z, as the Box3 the grid reads. cells maps a key to the  *)
(* set of objects of the cell, objectCells maps an object to its keys.     *)

CellSize == 4000     \* cellSize = 4
Epsilon == 1         \* 0.001

worldToCell(coord) == coord \div CellSize

cellKey(cx, cz) == ToString(cx) \o "," \o ToString(cz)

boundsToCell(box3) ==
    [minCX |-> worldToCell(box3.min.x),
     maxCX |-> worldToCell(box3.max.x + Epsilon),
     minCZ |-> worldToCell(box3.min.z),
     maxCZ |-> worldToCell(box3.max.z + Epsilon)]

cellKeysMutExclusive(box3) ==
    LET c == boundsToCell(box3)
        nx == Max(c.maxCX - c.minCX, 0)
        nz == Max(c.maxCZ - c.minCZ, 0)
    IN  [i \in 1..(nx * nz) |->
            cellKey(c.minCX + ((i - 1) \div nz), c.minCZ + ((i - 1) % nz))]

\* the keys visited by the two loops of insert and of query, in their order
cellKeys(box3) ==
    LET c == boundsToCell(box3)
        nx == Max(c.maxCX - c.minCX + 1, 0)
        nz == Max(c.maxCZ - c.minCZ + 1, 0)
    IN  [i \in 1..(nx * nz) |->
            cellKey(c.minCX + ((i - 1) \div nz), c.minCZ + ((i - 1) % nz))]

\* a Map restricted to some of its keys
mapOf(f, keep) == IF keep = {} THEN << >> ELSE [k \in keep |-> f[k]]

cellsAfterInsert(cs, object, keyList) ==
    LET added == SeqToSet(keyList)
    IN  IF added = {} THEN cs
        ELSE [k \in DOMAIN cs \cup added |->
                 (IF k \in DOMAIN cs THEN cs[k] ELSE {})
                    \cup (IF k \in added THEN {object} ELSE {})]

gridInsert(object, box3) ==
    LET keyList == cellKeys(box3)
    IN  /\ cells' = cellsAfterInsert(cells, object, keyList)
        /\ objectCells' = (object :> keyList) @@ objectCells

gridQuery(cs, box3) ==
    UNION {cs[k] : k \in SeqToSet(cellKeys(box3)) \cap DOMAIN cs}

gridRemove(object) ==
    IF object \notin DOMAIN objectCells
    THEN UNCHANGED gridVars
    ELSE LET gone == SeqToSet(objectCells[object])
             left == [k \in DOMAIN cells |->
                         IF k \in gone THEN cells[k] \ {object} ELSE cells[k]]
         IN  /\ cells' = mapOf(left, {k \in DOMAIN cells : left[k] # {}})
             /\ objectCells' = mapOf(objectCells, DOMAIN objectCells \ {object})

gridClear ==
    /\ cells' = << >>
    /\ objectCells' = << >>

(* The grid on its own: objects that carry their bounds are inserted, each *)
(* while it is in no cell, inserted again with other bounds after a move,  *)
(* removed, and the grid is cleared.  An object is the same object as long *)
(* as it is the same record.                                               *)

GridXs == {-4000, -1, 0, 3999, 4000}
GridZs == {-1, 0, 4000}

GridBoxes ==
    {[min |-> [x |-> x1, z |-> z1], max |-> [x |-> x2, z |-> z2]] :
        <<x1, x2, z1, z2>> \in
            {q \in GridXs \X GridXs \X GridZs \X GridZs :
                q[1] <= q[2] /\ q[3] <= q[4]}}

GridNames == {"a", "b"}

GridObjects == {[name |-> n, bounds |-> b] : n \in GridNames, b \in GridBoxes}

InitGrid == InitStore

\* the bounds an object is inserted with again: a point of the cell "1,0"
GridMoves ==
    {[min |-> [x |-> 4000, z |-> 0], max |-> [x |-> 4000, z |-> 0]]}

\* the objects in some cell
Stored == UNION {cells[k] : k \in DOMAIN cells}

GridInsert ==
    /\ \E object \in GridObjects :
          /\ \A o \in DOMAIN objectCells \cup Stored : o.name # object.name
          /\ gridInsert(object, object.bounds)
    /\ UNCHANGED <<emVars, isPaused, inputVars, camVars, meshVars, ctlVars, engineVars>>

\* insert(object, box3) on an object that is in the grid, with no remove between
GridInsertAgain ==
    /\ \E object \in DOMAIN objectCells, box3 \in GridMoves :
          /\ objectCells[object] = cellKeys(object.bounds)
          /\ box3 # object.bounds
          /\ gridInsert(object, box3)
    /\ UNCHANGED <<emVars, isPaused, inputVars, camVars, meshVars, ctlVars, engineVars>>

GridRemove ==
    /\ \E object \in DOMAIN objectCells : gridRemove(object)
    /\ UNCHANGED <<emVars, isPaused, inputVars, camVars, meshVars, ctlVars, engineVars>>

GridClear ==
    /\ DOMAIN objectCells # {}
    /\ gridClear
    /\ UNCHANGED <<emVars, isPaused, inputVars, camVars, meshVars, ctlVars, engineVars>>

NextGrid == GridInsert \/ GridInsertAgain \/ GridRemove \/ GridClear

SpecGrid == InitGrid /\ [][NextGrid]_vars

\* the X-Z bounds overlap or touch
Touching(p, q) ==
    /\ p.min.x <= q.max.x /\ q.min.x <= p.max.x
    /\ p.min.z <= q.max.z /\ q.min.z <= p.max.z

Inserted == DOMAIN objectCells

\* C19: a query returns every object in the grid whose X-Z bounds overlap or
\* touch the box of the query, and a query with the bounds of an object in the
\* grid returns that object, also with negative coordinates and with edges
\* on a boundary between cells.
C19_QueryReturnsAllTouching ==
    \A object \in Inserted :
        /\ object \in gridQuery(cells, object.bounds)
        /\ \A box3 \in GridBoxes :
              Touching(object.bounds, box3) => object \in gridQuery(cells, box3)

\* two objects are in the grid that only touch, along the boundary between
\* two cells, one of them on the negative side with its other edge on a
\* boundary as well, and each is returned for the bounds of the other
C19_Witness ==
    \E p, q \in Inserted :
        /\ p.bounds.min.x = -4000 /\ p.bounds.max.x = 0
        /\ q.bounds.min.x = 0 /\ q.bounds.max.x > 0
        /\ p \in gridQuery(cells, q.bounds)
        /\ q \in gridQuery(cells, p.bounds)

\* C20: when the collision stage of a tick has run, the grid holds exactly
\* the live collidable entities: it was cleared and every one of them was
\* inserted again after gravity and before the pairs were tested.
C20_GridRebuiltEachTick ==
    [][ pc = "sCollision" =>
          /\ DOMAIN objectCells' = SeqToSet(Colliders)
          /\ \A r \in SeqToSet(Colliders) : \E k \in DOMAIN cells' : r \in cells'[k]
      ]_vars

-----------------------------------------------------------------------------
(* The engine with request queues: GameEngine.update and processQueues,    *)
(* over the store with create / remove / getWithID, and the systems of     *)
(* Systems.js that fill the queues.  The store's list is entities, its     *)
(* _nextId is entityCount; an engine state is the record of the objects    *)
(* (h), the list (list), the id counter (count) and the meshes in the      *)
(* scene (meshes).  pc is "idle" between ticks, "systems" before the       *)
(* systems run and "queues" before the queues are processed.  The systems  *)
(* of main.js that only move entities or the camera are left out: nothing  *)
(* here reads a position.                                                  *)

engineState == [h |-> heap, list |-> entities, count |-> entityCount, meshes |-> sceneMeshes]

\* _entities.filter(e => e.id == id)[0]
EM_getWithID(st, id) ==
    LET hit == SelectSeq(st.list, LAMBDA r : st.h[r].id = id)
    IN  IF hit = <<>> THEN NoEntity ELSE hit[1]

\* _entities.filter(e => e.id !== id)
EM_remove(st, id) ==
    [st EXCEPT !.list = SelectSeq(st.list, LAMBDA r : st.h[r].id # id)]

\* create(type), and the components the caller attaches
EM_create(st, e) ==
    [st EXCEPT !.h = Append(st.h, e),
               !.list = Append(st.list, Len(st.h) + 1),
               !.count = st.count + 1]

\* fireballComponents of the engine's factory: no CombustibleComponent
engineFireball(e, origin, direction) ==
    withMesh(withLifespan(withHealth(withCollision(withVelocity(
        withPosition(e, origin), VScale(Normalize(direction), FireballSpeed)),
        <<FireballRadius, FireballRadius, FireballRadius>>, 0),
        FireballHealth), FireballLifetime), origin)

\* EM.spawnFireball(origin, direction): one new fireball entity
EM_spawnFireball(st, origin, direction) ==
    EM_create(st, engineFireball(Entity(st.count, "fireballEntity"), origin, direction))

spawnAllMutOne(st, queue) ==
    IF queue = <<>> THEN st
    ELSE EM_spawnFireball(st, Head(queue).origin, Head(queue).direction)

\* processQueues: the loop over the spawn queue
RECURSIVE spawnAll(_, _)
spawnAll(st, queue) ==
    IF queue = <<>> THEN st
    ELSE LET req == Head(queue)
             next == IF req.type = "fireball"
                     THEN EM_spawnFireball(st, req.origin, req.direction)
                     ELSE st
         IN  IF Len(next.h) >= Len(st.h) THEN spawnAll(next, Tail(queue)) ELSE st

\* processQueues: the body of the loop over the destroy queue
destroyOne(st, id) ==
    LET entity == EM_getWithID(st, id)
    IN  IF entity = NoEntity THEN st
        ELSE EM_remove([st EXCEPT !.meshes =
                           IF hasComponent(st.h[entity], "MeshComponent") /\ st.h[entity].mesh
                           THEN @ \ {entity} ELSE @], id)

RECURSIVE destroyAllMutStop(_, _)
destroyAllMutStop(st, queue) ==
    IF queue = <<>> \/ EM_getWithID(st, Head(queue)) = NoEntity THEN st
    ELSE LET next == destroyOne(st, Head(queue))
         IN  IF Len(next.list) <= Len(st.list) THEN destroyAllMutStop(next, Tail(queue)) ELSE st

\* processQueues: the loop over the destroy queue
RECURSIVE destroyAll(_, _)
destroyAll(st, queue) ==
    IF queue = <<>> THEN st
    ELSE LET next == destroyOne(st, Head(queue))
         IN  IF Len(next.list) <= Len(st.list) THEN destroyAll(next, Tail(queue)) ELSE st

processQueues(st, spawns, destroys) == destroyAll(spawnAll(st, spawns), destroys)

\* the entities a system gets from getWithComponentName of this store
engineQuery(st, names) == SelectSeq(st.list, LAMBDA r : names \subseteq st.h[r].components)

\* RenderSystem.update: meshes not yet added go to the scene, every mesh
\* takes the position of its entity
renderUpdate(st) ==
    LET shown == {r \in SeqToSet(engineQuery(st, {"MeshComponent"})) : st.h[r].mesh}
    IN  [st EXCEPT !.meshes = @ \cup (shown \ addedMeshes),
                   !.h = [r \in DOMAIN st.h |->
                             IF r \in shown
                             THEN [st.h[r] EXCEPT !.meshPosition = st.h[r].position]
                             ELSE st.h[r]]]

\* LifespanSystem.update, first loop: the objects after decrement(delta)
aged(st, dt) ==
    LET sel == SeqToSet(engineQuery(st, {"LifespanComponent"}))
    IN  [st EXCEPT !.h = [r \in DOMAIN st.h |->
                             IF r \in sel
                             THEN [st.h[r] EXCEPT !.secondsLeft = @ - dt]
                             ELSE st.h[r]]]

\* LifespanSystem.update: the ids pushed by the two loops, in order
lifespanPushes(st) ==
    LET ids(list) == [i \in DOMAIN list |-> st.h[list[i]].id]
        timedOut == SelectSeq(engineQuery(st, {"LifespanComponent"}),
                              LAMBDA r : st.h[r].secondsLeft <= 0)
        noHealth == SelectSeq(engineQuery(st, {"HealthComponent"}),
                              LAMBDA r : st.h[r].hp <= 0)
    IN  ids(timedOut) \o ids(noHealth)

SpawnCooldown == 15    \* this.spawnCooldown = 1.5

spawnFiresMutNoCooldown == mouse.buttons = 1 /\ toggleSpawn

\* SpawnSystem.update: does it push a request
spawnFires == mouse.buttons = 1 /\ toggleSpawn /\ spawnCooldown <= 0

fireballRequest ==
    LET direction == camDirection(camQuat)
    IN  [type |-> "fireball",
         origin |-> VAdd(camPos, VScale(direction, FireballOffset)),
         direction |-> direction]

spawnUpdate(dt) ==
    /\ toggleSpawn' = IF mouse.buttons = 1 /\ toggleSpawn THEN FALSE
                      ELSE IF mouse.buttons = 0 THEN TRUE ELSE toggleSpawn
    /\ spawnCooldown' = (IF spawnFires THEN SpawnCooldown ELSE spawnCooldown) - dt
    /\ spawnQueue' = IF spawnFires THEN Append(spawnQueue, fireballRequest) ELSE spawnQueue
    /\ sinceSpawn' = IF spawnFires THEN [elapsed |-> dt, released |-> FALSE]
                     ELSE [elapsed |-> IF sinceSpawn.elapsed < 0 THEN -1
                                       ELSE sinceSpawn.elapsed + dt,
                           released |-> sinceSpawn.released \/ mouse.buttons = 0]

\* the store and the scene take the values of an engine state
becomes(st) ==
    /\ heap' = st.h
    /\ entities' = st.list
    /\ entityCount' = st.count
    /\ sceneMeshes' = st.meshes

\* the wizard of main.js: no HealthComponent
engineWizard ==
    withMesh(withCollision(withMarker(withVelocity(withPosition(
        withMarker(Entity(0, "wizardEntity"), "InputComponent"), <<0, 80, 0>>), Zero3),
        "GravityComponent"), DefaultHalf, 0), <<0, 80, 0>>)

\* a fireball of an earlier tick, hit or not, with some time left
engineBall(hp, secs) ==
    [engineFireball(Entity(1, "fireballEntity"), <<0, 80, -24>>, <<0, 0, -1>>)
        EXCEPT !.hp = hp, !.secondsLeft = secs]

RequestIds == {1, 5}     \* ids pushed on the destroy queue: the fireball's, nobody's
RequestOrigins == {<<40, 80, -24>>}
EngineDeltas == {1}      \* 0.1 s

InitEngine ==
    /\ \E hp \in {FireballHealth, 0}, secs \in {1, FireballLifetime} :
          heap = <<engineWizard, engineBall(hp, secs)>>
    /\ entities = <<1, 2>>
    /\ entitiesToAdd = <<>>
    /\ entityMap = << >>
    /\ entityCount = 2
    /\ isPaused = FALSE
    /\ keys = {}
    /\ mouse = [dx |-> 0, dy |-> 0, buttons |-> 0, locked |-> FALSE]
    /\ camYaw = 0 /\ camPitch = 0 /\ camOver = FALSE
    /\ camQuat = <<0, 0>> /\ camPos = <<0, 80, 0>>
    /\ sceneMeshes = {1, 2} /\ addedMeshes = {1, 2}
    /\ pc = "idle" /\ delta = 0 /\ frames = 0
    /\ gridEmpty
    /\ engineIdle

\* GameEngine.update: const delta = this.clock.getDelta()
EngineBegin(dt) ==
    /\ pc = "idle"
    /\ frames < MaxFrames
    /\ pc' = "systems" /\ delta' = dt /\ frames' = frames + 1
    /\ UNCHANGED <<emVars, isPaused, inputVars, camVars, meshVars, gridVars, engineVars>>

\* a system that holds the spawn queue pushes a request
SpawnRequest(origin) ==
    /\ pc = "systems"
    /\ spawnQueue = <<>>
    /\ spawnQueue' = Append(spawnQueue, [fireballRequest EXCEPT !.origin = origin])
    /\ UNCHANGED <<emVars, isPaused, inputVars, camVars, meshVars, ctlVars, gridVars,
                   destroyQueue, spawnCooldown, toggleSpawn, sinceSpawn>>

\* a system that holds the destroy queue pushes an id
DestroyRequest(id) ==
    /\ pc = "systems"
    /\ Len(destroyQueue) < MaxSpawns
    /\ destroyQueue' = Append(destroyQueue, id)
    /\ UNCHANGED <<emVars, isPaused, inputVars, camVars, meshVars, ctlVars, gridVars,
                   spawnQueue, spawnCooldown, toggleSpawn, sinceSpawn>>

\* Object.values(this.systems).forEach(system => system.update(this.EM, delta))
EngineSystems ==
    /\ pc = "systems"
    /\ LET drawn == renderUpdate(engineState)
           old == aged(drawn, delta)
       IN  /\ becomes(old)
           /\ addedMeshes' = addedMeshes \cup drawn.meshes
           /\ spawnUpdate(delta)
           /\ destroyQueue' = destroyQueue \o lifespanPushes(old)
    /\ pc' = "queues"
    /\ UNCHANGED <<entitiesToAdd, entityMap, isPaused, inputVars, camVars, delta, frames, gridVars>>

\* the rest of GameEngine.update: processQueues and the two resets
EngineQueues ==
    /\ pc = "queues"
    /\ IF Len(spawnQueue) > 0 \/ Len(destroyQueue) > 0
       THEN /\ becomes(processQueues(engineState, spawnQueue, destroyQueue))
            /\ spawnQueue' = <<>>
            /\ destroyQueue' = <<>>
       ELSE UNCHANGED <<heap, entities, entityCount, sceneMeshes, spawnQueue, destroyQueue>>
    /\ pc' = "idle"
    /\ UNCHANGED <<entitiesToAdd, entityMap, isPaused, inputVars, camVars, addedMeshes,
                   delta, frames, gridVars, spawnCooldown, toggleSpawn, sinceSpawn>>

\* InputSystem: mousedown and mouseup of the left button, between ticks
EngineMouse ==
    /\ pc = "idle"
    /\ mouse' = [mouse EXCEPT !.buttons = 1 - @]
    /\ UNCHANGED <<emVars, isPaused, keys, camVars, meshVars, ctlVars, gridVars, engineVars>>

NextEngine ==
    \/ \E dt \in EngineDeltas : EngineBegin(dt)
    \/ \E origin \in RequestOrigins : SpawnRequest(origin)
    \/ \E id \in RequestIds : DestroyRequest(id)
    \/ EngineSystems
    \/ EngineQueues
    \/ EngineMouse

SpecEngine == InitEngine /\ [][NextEngine]_vars

\* the live entities a queued id names
Named == {r \in SeqToSet(entities) : \E i \in DOMAIN destroyQueue : heap[r].id = destroyQueue[i]}

\* the queued ids that name no live entity
DeadIds == {destroyQueue[i] : i \in DOMAIN destroyQueue} \ {heap[r].id : r \in SeqToSet(entities)}

\* C21: processing the destroy queue removes the live entities its ids name
\* and their meshes, and nothing else: an id that names no live entity, or
\* that comes a second time, leaves the list, the objects and the scene as
\* they are.
C21_DeadIdsChangeNothing ==
    [][ pc = "queues" =>
          /\ SelectSeq(entities', LAMBDA r : r <= Len(heap))
                = SelectSeq(entities, LAMBDA r : r \notin Named)
          /\ \A r \in 1 .. Len(heap) : heap'[r] = heap[r]
          /\ sceneMeshes' = sceneMeshes \ Named
      ]_vars

\* the queues are about to be processed and the destroy queue holds an id
\* that names nobody before an id that names a live entity, which comes twice
C21_Witness ==
    /\ pc = "queues"
    /\ \E i, j, k \in DOMAIN destroyQueue :
          /\ i < j /\ j < k
          /\ destroyQueue[i] \in DeadIds
          /\ destroyQueue[j] = destroyQueue[k]
          /\ \E r \in Named : heap[r].id = destroyQueue[j]

\* C22: the queue-processing step of a tick makes one new entity for each
\* request of the spawn queue, in the order of the queue, and the update
\* ends with both queues empty.
C22_QueuesDrainedOncePerTick ==
    [][ pc = "queues" =>
          /\ Len(heap') = Len(heap) + Len(spawnQueue)
          /\ \A i \in DOMAIN spawnQueue :
                LET r == Len(heap) + i
                IN  /\ heap'[r].position = spawnQueue[i].origin
                    /\ heap'[r].id = entityCount + i - 1
                    /\ heap'[r].tag = "fireballEntity"
                    /\ Count(entities', r) =
                          IF \E k \in DOMAIN destroyQueue : destroyQueue[k] = heap'[r].id
                          THEN 0 ELSE 1
          /\ entityCount' = entityCount + Len(spawnQueue)
          /\ pc' = "idle" /\ spawnQueue' = <<>> /\ destroyQueue' = <<>>
      ]_vars

\* the queues are about to be processed with two requests on the spawn
\* queue, for different places, and an id on the destroy queue
C22_Witness ==
    /\ pc = "queues"
    /\ Len(spawnQueue) = 2
    /\ spawnQueue[1].origin # spawnQueue[2].origin
    /\ destroyQueue # <<>>

\* C23: getEntitiesWithTag(tag) holds only active entities created with the
\* tag: never an entity on which destroy() has been called.
C23_TagQueryOnlyActive ==
    \A tag \in Tags :
        \A r \in SeqToSet(getEntitiesWithTag(tag)) :
            isActive(heap[r]) /\ heap[r].tag = tag

\* r ended the tick before grounded and lies still, without input, with its
\* bottom exactly on the top face of the static s
RestsOn(r, s) ==
    /\ hasComponent(heap[r], "GravityComponent")
    /\ hasComponent(heap[r], "VelocityComponent")
    /\ ~hasComponent(heap[s], "VelocityComponent")
    /\ heap[r].isOnGround
    /\ heap[r].velocity = Zero3
    /\ keys = {}
    /\ Above(r, s)
    /\ Bottom(heap, r) = Top(heap, s)

\* C24: a gravity-affected dynamic entity that has come to rest on top of a
\* static box and gets no input is still grounded when the collision pass of
\* the next tick has run.
C24_RestingStaysGrounded ==
    [][ pc = "sCollision" =>
          \A r, s \in SeqToSet(Colliders) : RestsOn(r, s) => heap'[r].isOnGround
      ]_vars

----------------------------------------------------------------------------
(* Claims about the resolution of one pair, checked under SpecSat *)

Moving(r) == hasComponent(heap[r], "VelocityComponent")
YDominant(m) == Abs(m[2]) > Abs(m[1]) /\ Abs(m[2]) > Abs(m[3])
\* the pair the combustion rule leaves with a continue
PlayerPair ==
    \/ Combustible(1) /\ heap[2].id = PlayerId
    \/ Combustible(2) /\ heap[1].id = PlayerId

\* C25: in an overlapping pair with one dynamic side, first or second, the
\* dynamic entity moves by the whole MTV, away from the static entity, which
\* stays; if it moves up its vertical velocity becomes 0 and it is grounded,
\* otherwise its velocity is kept and the pair does not ground it.
C25_FullMtvToDynamicSide ==
    [][ pc = "sCollision" /\ Mtv # NoMtv /\ Moving(1) # Moving(2) =>
          LET d == IF Moving(1) THEN 1 ELSE 2
              move == VSub(heap'[d].position, heap[d].position)
          IN  /\ move = IF d = 1 THEN Mtv ELSE VScale(Mtv, -1)
              /\ Dot(move, VSub(heap[d].position, heap[3 - d].position)) >= 0
              /\ heap'[3 - d] = heap[3 - d]
              /\ IF move[2] > 0
                 THEN /\ heap'[d].velocity = <<heap[d].velocity[1], 0, heap[d].velocity[3]>>
                      /\ heap'[d].isOnGround
                 ELSE /\ heap'[d].velocity = heap[d].velocity
                      /\ ~heap'[d].isOnGround
      ]_vars

\* the pass has run on a static A and a dynamic B, and B has landed on A
C25_Witness ==
    /\ pc = "sLifespan"
    /\ ~Moving(1) /\ Moving(2)
    /\ heap[2].isOnGround
    /\ heap[2].velocity = <<BoxVelocity[1], 0, BoxVelocity[3]>>
    /\ heap[2].position[2] > 0

\* the two dynamic entities are pushed apart by half the X and Z of the MTV
\* each, and nothing else of them changes
SplitApart ==
    /\ VScale(VSub(heap'[1].position, heap[1].position), 2) = <<Mtv[1], 0, Mtv[3]>>
    /\ VScale(VSub(heap'[2].position, heap[2].position), 2) = <<-Mtv[1], 0, -Mtv[3]>>
    /\ VAdd(heap'[1].position, heap'[2].position) = VAdd(heap[1].position, heap[2].position)
    /\ heap'[1].velocity = heap[1].velocity /\ heap'[2].velocity = heap[2].velocity
    /\ ~heap'[1].isOnGround /\ ~heap'[2].isOnGround

\* C26 as stated: every overlapping pair of two dynamic entities whose MTV is
\* not vertical-dominant is split apart.
C26_Original ==
    [][ pc = "sCollision" /\ Mtv # NoMtv /\ Moving(1) /\ Moving(2) /\ ~YDominant(Mtv)
          => SplitApart ]_vars

\* C26, amended: an overlapping pair of two dynamic entities whose MTV is not
\* vertical-dominant is split apart, unless it is made of a combustible
\* entity and entity 0: that pair is left as it is.
C26_SplitUnlessPlayerPair ==
    [][ pc = "sCollision" /\ Mtv # NoMtv /\ Moving(1) /\ Moving(2) /\ ~YDominant(Mtv)
          => IF PlayerPair THEN heap' = heap ELSE SplitApart ]_vars

\* the pass is about to run on two overlapping dynamic entities, the second
\* combustible and the first not entity 0, with an MTV that has an X or Z part
C26_Witness ==
    /\ pc = "sCollision"
    /\ Mtv # NoMtv /\ ~YDominant(Mtv)
    /\ Moving(1) /\ Moving(2)
    /\ Combustible(2) /\ heap[1].id # PlayerId

\* C27: the movement stage sets the vertical velocity of the player-controlled
\* entity to the jump strength if the jump key is held while its grounded flag
\* is true, and otherwise leaves its velocity as it is: no jump in mid-air.
C27_JumpOnlyWhenGrounded ==
    [][ pc = "sMovement" =>
          \A r \in Dynamic(heap) :
             hasComponent(heap[r], "InputComponent") =>
                heap'[r].velocity =
                   IF "Space" \in keys /\ heap[r].isOnGround
                   THEN <<heap[r].velocity[1], JumpStrength, heap[r].velocity[3]>>
                   ELSE heap[r].velocity
      ]_vars

\* movement is about to run with the jump key held and the player not grounded
C27_Witness ==
    /\ pc = "sMovement"
    /\ "Space" \in keys
    /\ \E r \in Dynamic(heap) :
          hasComponent(heap[r], "InputComponent") /\ ~heap[r].isOnGround

\* movement has run with the jump key held and the player grounded: it jumps
C27_WitnessJump ==
    /\ pc = "sGravity"
    /\ "Space" \in keys
    /\ \E r \in Dynamic(heap) :
          /\ hasComponent(heap[r], "InputComponent")
          /\ heap[r].isOnGround /\ heap[r].velocity[2] = JumpStrength

\* the entities the gravity stage acts on
Falls(r) ==
    /\ isActive(heap[r])
    /\ {"PositionComponent", "VelocityComponent", "GravityComponent"} \subseteq heap[r].components
    /\ ~heap[r].isOnGround

\* C28: the gravity stage lowers velocity.y by gravity * dt and then advances
\* the position by the new velocity * dt, on the entities that have Position,
\* Velocity and GravityAffected and are not grounded; every other entity, the
\* grounded ones included, is left as it is.
C28_GravityOnlyOnFallingEntities ==
    [][ pc = "sGravity" =>
          \A r \in Live :
             IF Falls(r)
             THEN /\ heap'[r].velocity[1] = heap[r].velocity[1]
                  /\ heap'[r].velocity[2] * 10 = heap[r].velocity[2] * 10 - GravityAccel * delta
                  /\ heap'[r].velocity[3] = heap[r].velocity[3]
                  /\ \A k \in 1 .. 3 :
                        heap'[r].position[k] = heap[r].position[k] + 4 * delta * heap'[r].velocity[k]
                  /\ heap'[r].isOnGround = heap[r].isOnGround
             ELSE heap'[r] = heap[r]
      ]_vars

\* gravity is about to run on a player that is not grounded, beside a moving
\* entity that has no GravityAffected component
C28_Witness ==
    /\ pc = "sGravity"
    /\ \E r, q \in Live :
          /\ Falls(r)
          /\ isActive(heap[q]) /\ ~hasComponent(heap[q], "GravityComponent")
          /\ heap[q].velocity # Zero3

\* gravity is about to run on a grounded player
C28_WitnessGrounded ==
    /\ pc = "sGravity"
    /\ \E r \in Live :
          /\ hasComponent(heap[r], "GravityComponent")
          /\ heap[r].isOnGround

\* what remove(object) leaves, from a grid with the cells cs to one with cs2
Removed(object, cs, cs2) ==
    /\ \A k \in DOMAIN cs2 : object \notin cs2[k]
    /\ \A box3 \in GridBoxes : object \notin gridQuery(cs2, box3)
    /\ \A k \in DOMAIN cs :
          cs[k] \ {object} = IF k \in DOMAIN cs2 THEN cs2[k] ELSE {}
    /\ \A k \in DOMAIN cs2 : k \in DOMAIN cs /\ cs2[k] # {}

\* C29: after remove(object) the object is in no cell and no query returns
\* it, whatever inserts came before, two inserts of the object with different
\* bounds and no remove between them included; the entries of the other
\* objects are as they were and no empty cell is left.
C29_RemoveLeavesNoTrace ==
    [][ \A object \in DOMAIN objectCells :
           gridRemove(object) => Removed(object, cells, cells')
      ]_vars

\* the same for the objects that were inserted once since they were last out
\* of the grid
C29_RemoveAfterOneInsert ==
    [][ \A object \in DOMAIN objectCells :
           (gridRemove(object) /\ \A k \in DOMAIN cells :
                                     object \in cells[k] => k \in SeqToSet(objectCells[object]))
              => Removed(object, cells, cells')
      ]_vars

\* an object inserted once was removed from a cell it shared and from a cell
\* it had alone
C29_Witness ==
    /\ Stored # {}
    /\ \E object \in GridObjects :
          /\ object \notin Stored \cup DOMAIN objectCells
          /\ \E k \in DOMAIN cells : cellKey(0, 0) = k
          /\ \E o \in DOMAIN objectCells : o.name # object.name

-----------------------------------------------------------------------------
(* Mouse look: the mousemove and pointerlockchange listeners of ScenePlay  *)
(* between the frames of the scene, with the pause key.  The deltas of a   *)
(* motion are in pointer counts; the accumulated delta is kept within      *)
(* twice the threshold of the camera stage.                                *)

PointerMotions == {<<120, 0>>, <<0, 300>>, <<-120, -300>>}     \* movementX, movementY
LookDeltas == {1}

\* mousemove: mouse.dx += e.movementX; mouse.dy += e.movementY
MouseMove(m) ==
    /\ pc = "idle"
    /\ Abs(mouse.dx + m[1]) <= 2 * DeltaThreshold
    /\ Abs(mouse.dy + m[2]) <= 2 * DeltaThreshold
    /\ mouse' = [mouse EXCEPT !.dx = @ + m[1], !.dy = @ + m[2]]
    /\ UNCHANGED <<emVars, isPaused, keys, camVars, meshVars, ctlVars, gridVars, engineVars>>

\* pointerlockchange: mouse.locked = !!document.pointerLockElement
PointerLockChange ==
    /\ pc = "idle"
    /\ mouse' = [mouse EXCEPT !.locked = ~@]
    /\ UNCHANGED <<emVars, isPaused, keys, camVars, meshVars, ctlVars, gridVars, engineVars>>

NextLook ==
    \/ \E m \in PointerMotions : MouseMove(m)
    \/ PointerLockChange
    \/ KeyDown("KeyP")
    \/ \E dt \in LookDeltas : BeginFrame(dt)
    \/ CameraControl
    \/ Movement
    \/ Gravity
    \/ Collision
    \/ Lifespan
    \/ Render

SpecLook == Init /\ [][NextLook]_vars

\* C30: however motion events and ticks interleave, the camera stage of a
\* tick that is not paused leaves dx and dy at 0; no other stage writes them
\* or turns the camera; and the camera stage turns the camera by nothing or
\* by the accumulated deltas (the pitch clamped), so that with the reset a
\* motion is applied in at most one tick.
C30_DeltasConsumedOnce ==
    [][ /\ pc = "sCameraControl" =>
              /\ mouse'.dx = 0 /\ mouse'.dy = 0
              /\ camYaw' \in {camYaw, camYaw - mouse.dx}
              /\ camPitch' \in {camPitch,
                                Max(-QuarterTurn, Min(QuarterTurn, camPitch - mouse.dy))}
              /\ ~mouse.locked => camYaw' = camYaw /\ camPitch' = camPitch
        /\ pc \notin {"idle", "sCameraControl"} =>
              /\ mouse' = mouse
              /\ camYaw' = camYaw /\ camPitch' = camPitch
        /\ (pc = "idle" /\ pc' = "idle") =>
              camYaw' = camYaw /\ camPitch' = camPitch
        /\ (pc = "idle" /\ pc' # "idle") => mouse' = mouse
      ]_vars

\* the camera stage of a second tick has run after a motion was applied, with
\* nothing left of it
C30_Witness ==
    /\ pc = "sMovement" /\ frames >= 2
    /\ mouse.locked /\ mouse.dx = 0 /\ mouse.dy = 0
    /\ camYaw = -120

\* a paused tick is running over a pending motion
C30_WitnessPaused ==
    /\ pc = "sRender" /\ isPaused
    /\ mouse.dx # 0

\* a motion over the threshold was dropped by the camera stage
C30_WitnessDropped ==
    /\ pc = "sMovement" /\ camOver
    /\ camPitch = 0 /\ camYaw = 0

\* C31: the mesh of an entity that a flush prunes from the live list is out
\* of the scene and out of addedMeshes when that flush is done, and no mesh
\* in the scene belongs to an entity that is not on the live list.
C31_PrunedMeshesDetached ==
    [][ /\ \A r \in SeqToSet(entities) \ SeqToSet(entities') :
              r \notin sceneMeshes' /\ r \notin addedMeshes'
        /\ sceneMeshes' \subseteq SeqToSet(entities')
      ]_vars

\* an entity whose mesh was in the scene has been pruned
C31_Witness ==
    \E r \in DOMAIN heap :
        /\ heap[r].mesh /\ ~isActive(heap[r])
        /\ r \notin SeqToSet(entities) /\ r \notin SeqToSet(entitiesToAdd)
        /\ r \notin sceneMeshes

\* the pair got positional resolution: a dynamic side was moved
Resolved == \E d \in {1, 2} : Moving(d) /\ heap'[d].position # heap[d].position

\* C32 as stated: every overlapping pair with a dynamic side gets positional
\* resolution in the pass, whatever the combustion rule did, the pair of a
\* combustible entity and entity 0 included.
C32_Original ==
    [][ pc = "sCollision" /\ Mtv # NoMtv /\ (Moving(1) \/ Moving(2)) => Resolved ]_vars

\* C32, amended: every overlapping pair with a dynamic side gets positional
\* resolution, also when the combustion rule destroyed one of the two, except
\* the pair of a combustible entity and entity 0, which the combustion rule
\* skips: neither of the two is moved.
C32_ResolvedUnlessPlayerPair ==
    [][ pc = "sCollision" /\ Mtv # NoMtv /\ (Moving(1) \/ Moving(2)) =>
          IF PlayerPair
          THEN heap'[1].position = heap[1].position /\ heap'[2].position = heap[2].position
          ELSE Resolved ]_vars

\* the pass has run on a combustible dynamic B overlapping a static A: B was
\* destroyed and pushed out of A all the same
C32_Witness ==
    /\ pc = "sLifespan"
    /\ ~Moving(1) /\ Moving(2) /\ Combustible(2)
    /\ ~isActive(heap[2])
    /\ heap[2].position # Zero3

\* C33: after every update(), the list of each tag is the live list restricted
\* to the entities of that tag, in the same order; no entity is twice in the
\* live list; and the live list and the tag lists hold active entities only.
C33_TagIndexMirrorsLiveList ==
    [][ IsUpdate =>
          /\ \A t \in Tags :
                (IF t \in DOMAIN entityMap' THEN entityMap'[t] ELSE <<>>)
                   = SelectSeq(entities', LAMBDA r : heap'[r].tag = t)
          /\ \A i, j \in DOMAIN entities' : i # j => entities'[i] # entities'[j]
          /\ \A r \in SeqToSet(entities') : isActive(heap'[r])
          /\ \A t \in DOMAIN entityMap' :
                \A r \in SeqToSet(entityMap'[t]) : isActive(heap'[r])
      ]_vars

\* after a flush, a tag has two live entities with an entity of another tag
\* between them on the live list
C33_Witness ==
    /\ entitiesToAdd = <<>>
    /\ \E t \in DOMAIN entityMap :
          /\ Len(entityMap[t]) = 2
          /\ \E i \in DOMAIN entities :
                /\ heap[entities[i]].tag # t
                /\ entityMap[t][1] < entities[i] /\ entities[i] < entityMap[t][2]

\* after a flush, a tag has a live entity that came after one that was pruned
C33_WitnessPruned ==
    /\ entitiesToAdd = <<>>
    /\ \E t \in DOMAIN entityMap :
          /\ Len(entityMap[t]) = 1
          /\ \E r \in Refs :
                heap[r].tag = t /\ r \notin SeqToSet(entities) /\ r < entityMap[t][1]

\* C34: no stage of any tick changes the position of an entity that has no
\* Velocity component, whatever it overlaps and whether it comes first or
\* second in a pair.
C34_StaticEntitiesStay ==
    [][ \A r \in DOMAIN heap :
           ~hasComponent(heap[r], "VelocityComponent") =>
               heap'[r].position = heap[r].position
      ]_vars

\* the entities i and j of the live list overlap, i before j
Overlapping(i, j) ==
    /\ i < j
    /\ isActive(heap[entities[i]]) /\ isActive(heap[entities[j]])
    /\ satOBB(getOBB(heap[entities[i]]), getOBB(heap[entities[j]])) # NoMtv

\* the collision pass is about to run with an entity without Velocity that
\* comes first in a pair with a dynamic entity that overlaps it
C34_Witness ==
    /\ pc = "sCollision"
    /\ \E j, k \in DOMAIN entities :
          /\ Overlapping(j, k)
          /\ ~hasComponent(heap[entities[j]], "VelocityComponent")
          /\ hasComponent(heap[entities[k]], "VelocityComponent")

\* the same with the entity without Velocity second in the pair
C34_WitnessSecond ==
    /\ pc = "sCollision"
    /\ \E i, j \in DOMAIN entities :
          /\ Overlapping(i, j)
          /\ hasComponent(heap[entities[i]], "VelocityComponent")
          /\ ~hasComponent(heap[entities[j]], "VelocityComponent")

\* C35: in the default scene the entity with id 0 is the one entity that
\* carries the Input marker, its hp is what it was created with and it is
\* not marked dead.
C35_PlayerIsEntityZero ==
    /\ \E r \in DOMAIN heap : heap[r].id = PlayerId
    /\ \A r \in DOMAIN heap :
          /\ (heap[r].id = PlayerId) = hasComponent(heap[r], "InputComponent")
          /\ heap[r].id = PlayerId =>
                /\ heap[r].hp = DefaultMaxHp
                /\ isActive(heap[r])

\* the collision pass has run with a live fireball inside the player
C35_Witness ==
    /\ pc = "sLifespan"
    /\ \E r, q \in Live :
          /\ heap[r].id = PlayerId
          /\ Combustible(q) /\ isActive(heap[q])
          /\ satOBB(getOBB(heap[r]), getOBB(heap[q])) # NoMtv

\* the pair loop in which a pair with a destroyed entity is passed over
RECURSIVE collideLive(_, _, _, _)
collideLive(h, list, i, j) ==
    IF i > Len(list) THEN h
    ELSE IF j > Len(list) THEN collideLive(h, list, i + 1, i + 2)
    ELSE LET after == IF isActive(h[list[i]]) /\ isActive(h[list[j]])
                      THEN collidePair(h, list[i], list[j])
                      ELSE h
         IN  IF Len(after) = Len(h) THEN collideLive(after, list, i, j + 1) ELSE h

\* the hp the entities lose in a step
Lost(r) == heap[r].hp - heap'[r].hp

C36_LossOnlyFromOverlappingCombustibles ==
    [][ pc = "sCollision" =>
          \A i \in DOMAIN Colliders :
             Lost(Colliders[i]) = CombustDamage *
                Cardinality({j \in DOMAIN Colliders \ {i} :
                    /\ Combustible(Colliders[j])
                    /\ HasHealth(Colliders[i])
                    /\ heap[Colliders[i]].id # PlayerId
                    /\ <<Min(i, j), Max(i, j)>> \in OverlappingPairs})
      ]_vars

-----------------------------------------------------------------------------
(* SpawnSystem over several ticks of the engine: the left button between   *)
(* the ticks, deltas that add up to the cooldown in two or three ticks.    *)

MaxTicks == 4
SpawnDeltas == {1, 7, 8}     \* 0.1 s, 0.7 s, 0.8 s

InitSpawn ==
    /\ heap = <<engineWizard>>
    /\ entities = <<1>>
    /\ entitiesToAdd = <<>>
    /\ entityMap = << >>
    /\ entityCount = 1
    /\ isPaused = FALSE
    /\ keys = {}
    /\ mouse = [dx |-> 0, dy |-> 0, buttons |-> 0, locked |-> FALSE]
    /\ camYaw = 0 /\ camPitch = 0 /\ camOver = FALSE
    /\ camQuat = <<0, 0>> /\ camPos = <<0, 80, 0>>
    /\ sceneMeshes = {1} /\ addedMeshes = {1}
    /\ pc = "idle" /\ delta = 0 /\ frames = 0
    /\ gridEmpty
    /\ engineIdle

SpawnBegin(dt) ==
    /\ pc = "idle"
    /\ frames < MaxTicks
    /\ pc' = "systems" /\ delta' = dt /\ frames' = frames + 1
    /\ UNCHANGED <<emVars, isPaused, inputVars, camVars, meshVars, gridVars, engineVars>>

NextSpawn ==
    \/ \E dt \in SpawnDeltas : SpawnBegin(dt)
    \/ EngineSystems
    \/ EngineQueues
    \/ EngineMouse

SpecSpawn == InitSpawn /\ [][NextSpawn]_vars

\* C37: SpawnSystem pushes at most one request in an update; when it pushes
\* one after another, an update has seen the button mask at 0 in between, so
\* that the request belongs to a new press, and the deltas subtracted from
\* the cooldown in between (those of the ticks from the one of the earlier
\* request up to the one before this) add up to 1.5 s or more.
C37_OneRequestPerPressAndCooldown ==
    [][ /\ Len(spawnQueue') <= Len(spawnQueue) + 1
        /\ (Len(spawnQueue') > Len(spawnQueue) /\ sinceSpawn.elapsed >= 0) =>
              /\ mouse.buttons = 1
              /\ sinceSpawn.released
              /\ sinceSpawn.elapsed >= SpawnCooldown
      ]_vars

\* a second request has just been pushed
C37_Witness ==
    /\ pc = "queues"
    /\ Len(spawnQueue) = 1
    /\ Len(entities) >= 2

\* the button is held through the cooldown and past it, and no request follows
C37_WitnessHeld ==
    /\ pc = "idle"
    /\ mouse.buttons = 1 /\ ~toggleSpawn /\ ~sinceSpawn.released
    /\ sinceSpawn.elapsed > SpawnCooldown

\* a press during the cooldown is used up without a request
C37_WitnessTooSoon ==
    /\ pc = "idle"
    /\ mouse.buttons = 1 /\ ~toggleSpawn /\ sinceSpawn.released
    /\ sinceSpawn.elapsed >= 0 /\ sinceSpawn.elapsed < SpawnCooldown

\* a step of an update that runs while the scene is paused
PausedUpdateStep == isPaused /\ (pc # "idle" \/ pc' # "idle")

\* C38: an update of the paused scene changes no position, velocity, grounded
\* flag, remaining lifespan, hp or alive flag; it runs the flush and the
\* render stage only; and the paused state changes only with the start of a
\* 'pause' action.
C38_PausedUpdateFreezesEntities ==
    [][ /\ PausedUpdateStep =>
              /\ pc' \in {"sRender", "idle"}
              /\ \A r \in DOMAIN heap :
                    /\ heap'[r].position = heap[r].position
                    /\ heap'[r].velocity = heap[r].velocity
                    /\ heap'[r].isOnGround = heap[r].isOnGround
                    /\ heap'[r].secondsLeft = heap[r].secondsLeft
                    /\ heap'[r].hp = heap[r].hp
                    /\ heap'[r].active = heap[r].active
        /\ isPaused' # isPaused => KeyDown("KeyP")
      ]_vars

\* two updates have run paused from the start: the player, created in the
\* air, is where it was created, and a fireball cast meanwhile was flushed
C38_Witness ==
    /\ pc = "idle" /\ isPaused /\ frames = 2
    /\ heap[1].position = PlayerStart /\ ~heap[1].isOnGround
    /\ \E r \in Live : heap[r].tag = "fireballEntity" /\ heap[r].secondsLeft = FireballLifetime

-----------------------------------------------------------------------------
(* Ticks that keep coming: frames of the scene that is not paused, from    *)
(* the mid-game states with fireballs, with no bound on their number.  The *)
(* frame counter stands still, and the deltas are those with which the     *)
(* player stays on the floor, so that the states are finitely many.        *)

LiveDeltas == {1, 2}     \* 0.1 s and 0.2 s

LiveBegin(dt) ==
    /\ pc = "idle"
    /\ ~isPaused
    /\ sceneMeshes' = sceneMeshes \ dyingMeshes
    /\ addedMeshes' = addedMeshes \ dyingMeshes
    /\ EntityManager_update
    /\ pc' = firstStage(isPaused)
    /\ delta' = dt
    /\ UNCHANGED <<isPaused, keys, mouse, camYaw, camPitch, camOver, camQuat, camPos,
                   frames, gridVars, engineVars>>

InitLive == InitBurn \/ InitExpire

NextLive ==
    \/ \E dt \in LiveDeltas : LiveBegin(dt)
    \/ CameraControl
    \/ Movement
    \/ Gravity
    \/ Collision
    \/ Lifespan
    \/ Render

\* the render loop asks for the next frame at the end of every frame, and
\* update() runs its systems one after the other: the stage counter always
\* moves on
LiveAdvance == pc' = IF pc = "idle" THEN firstStage(isPaused) ELSE stageAfter(pc)

SpecLive == InitLive /\ [][NextLive]_vars /\ WF_pc(LiveAdvance)

\* C39: while frames keep running, not paused and with a positive delta,
\* every entity with a Lifespan is in the end off the live list and marked
\* dead; the lifespan stage takes the delta from the remaining time of every
\* such entity that is alive and marks it dead when nothing remains, which
\* for a fireball is when the deltas since its first frame add up to 1 s; and
\* the next flush takes an entity marked dead off the live list.
C39_LifespanEntitiesArePruned ==
    /\ \A r \in 1 .. DefaultCount + MaxSpawns :
          (r \in Live /\ HasLifespan(r))
             ~> (r \in DOMAIN heap /\ r \notin Live /\ ~isActive(heap[r]))
    /\ [][ /\ pc = "sLifespan" =>
                 \A r \in Live :
                    (HasLifespan(r) /\ isActive(heap[r])) =>
                       /\ heap'[r].secondsLeft = heap[r].secondsLeft - delta
                       /\ heap'[r].secondsLeft <= 0 => ~isActive(heap'[r])
           /\ pc = "idle" =>
                 \A r \in Live : ~isActive(heap[r]) => r \notin SeqToSet(entities')
         ]_vars

\* a fireball has been taken off the live list with no time left and its hp
\* untouched: it was its lifespan that ended
C39_Witness ==
    \E r \in DOMAIN heap :
        /\ HasLifespan(r) /\ r \notin Live
        /\ heap[r].secondsLeft <= 0 /\ heap[r].hp = FireballHealth

----------------------------------------------------------------------------
(* satOBB with its arguments exchanged, on two boxes that are not turned.  *)

\* the pair before its test, both boxes with the identity orientation
AlignedPair ==
    pc = "sCollision" /\ heap[1].rotation = 0 /\ heap[2].rotation = 0

mtvAB == satOBB(getOBB(heap[1]), getOBB(heap[2]))
mtvBA == satOBB(getOBB(heap[2]), getOBB(heap[1]))

\* the same pair with the second entity first in the list
exchanged == << heap[2], heap[1] >>

\* the two entities are placed alike by the resolution in either order
SamePlaces(h, g) ==
    /\ h[1].position = g[2].position
    /\ h[2].position = g[1].position

\* the centers differ along the axis of the vector
OffCenter(mtv) ==
    Dot(VSub(heap[1].position, heap[2].position), Normalize(mtv)) # 0

\* C40 as stated: for two overlapping axis-aligned boxes satOBB(B, A) is
\* the negation of satOBB(A, B), also when the centers coincide along the
\* axis of minimal overlap
C40_Original ==
    (AlignedPair /\ mtvAB # NoMtv) =>
        /\ mtvBA # NoMtv
        /\ mtvBA = VScale(mtvAB, -1)

\* C40: for two overlapping axis-aligned boxes whose centers differ along
\* the axis of minimal overlap, satOBB(B, A) is the negation of satOBB(A, B)
\* and the resolution places both entities alike whichever comes first;
\* when the centers coincide along that axis both orders return the same
\* vector, along the positive axis, and nothing is negated
C40_NegatedUnlessCentered ==
    (AlignedPair /\ mtvAB # NoMtv) =>
        /\ mtvBA # NoMtv
        /\ IF OffCenter(mtvAB)
           THEN /\ mtvBA = VScale(mtvAB, -1)
                /\ SamePlaces(collidePair(heap, 1, 2), collidePair(exchanged, 1, 2))
           ELSE /\ mtvBA = mtvAB
                /\ \A k \in 1 .. 3 : mtvAB[k] >= 0

\* two overlapping boxes, not turned, with different centers along the axis
\* of least overlap: the two vectors are opposite and not null
C40_Witness ==
    /\ AlignedPair /\ mtvAB # NoMtv /\ OffCenter(mtvAB)
    /\ mtvBA = VScale(mtvAB, -1) /\ mtvBA # mtvAB

\* two overlapping boxes, not turned, whose centers coincide along the axis
\* of least overlap and differ along another: both orders give the same vector
C40_WitnessCentered ==
    /\ AlignedPair /\ mtvAB # NoMtv /\ ~OffCenter(mtvAB)
    /\ heap[1].position # heap[2].position
    /\ mtvBA = mtvAB

====
